---------------------------- MODULE Spec2Model ----------------------------
(***************************************************************************)
(* A model of cql-nom: the CQL data-definition grammar (src/src/parse),    *)
(* the schema model with its identifier equality and keyspace              *)
(* contextualization (src/src/model), and the linking pass reference_types *)
(* that replaces raw names by shared handles.                              *)
(*                                                                         *)
(* Texts are TLA+ strings; a character is a string of length one.          *)
(* Option<T> is a sequence of length 0 (None) or 1 (Some).                 *)
(* An Rc<T> is the index of its cell in `heap`; Rc::new appends a cell,    *)
(* Rc::clone copies the index.                                             *)
(***************************************************************************)
EXTENDS Integers, Sequences, FiniteSets, TLC

VARIABLES
    script,     \* the parsed statements handed to the linking pass
    ambient,    \* Option<CqlIdentifier>: the keyspace handed to the linking pass
    context,    \* the statements linked so far (local `statements` of the fold)
    heap,       \* the Rc cells allocated so far
    pos,        \* how many statements of the script the pass has taken
    result,     \* Option<Result<..>>: what the fold returned, None while it runs
    arg,        \* input of the pure function under check
    res         \* Option<output> of the pure function under check

vars == <<script, ambient, context, heap, pos, result, arg, res>>

-----------------------------------------------------------------------------
(* Option and small helpers *)

None == <<>>
Some(v) == <<v>>
IsSome(o) == Len(o) > 0
IsNone(o) == Len(o) = 0
Unwrap(o) == o[1]

Min(S) == CHOOSE m \in S : \A n \in S : m <= n

Ok(v) == [ok |-> TRUE, val |-> Some(v), err |-> None]
Err(e) == [ok |-> FALSE, val |-> None, err |-> Some(e)]

-----------------------------------------------------------------------------
(* Characters *)

UpperLetters == "ABCDEFGHIJKLMNOPQRSTUVWXYZ"
LowerLetters == "abcdefghijklmnopqrstuvwxyz"
Digits == "0123456789"

Char(s, i) == SubSeq(s, i, i)
CharsOf(s) == {Char(s, i) : i \in 1..Len(s)}

UpperSet == CharsOf(UpperLetters)
LowerSet == CharsOf(LowerLetters)
DigitSet == CharsOf(Digits)
SpaceSet == {" ", "\t", "\n", "\r"}

LowerOf == [c \in UpperSet |->
              Char(LowerLetters, CHOOSE i \in 1..Len(UpperLetters) : Char(UpperLetters, i) = c)]

to_ascii_lowercase(c) == IF c \in UpperSet THEN LowerOf[c] ELSE c

is_alpha(c) == c \in UpperSet \cup LowerSet
is_dec_digit(c) == c \in DigitSet

eq_ignore_ascii_case(s, o) ==
    /\ Len(s) = Len(o)
    /\ \A i \in 1..Len(s) : to_ascii_lowercase(Char(s, i)) = to_ascii_lowercase(Char(o, i))

-----------------------------------------------------------------------------
(* model/identifier.rs, model/qualified_identifier.rs, model.rs *)

Unquoted(t) == [quoted |-> FALSE, text |-> t]
Quoted(t) == [quoted |-> TRUE, text |-> t]

CqlIdentifierEqNoFold(x, y) == x.text = y.text

CqlIdentifierEq(x, y) ==
    IF x.quoted /\ y.quoted
    THEN x.text = y.text
    ELSE eq_ignore_ascii_case(x.text, y.text)

OptionIdentifierEq(a, b) ==
    \/ IsNone(a) /\ IsNone(b)
    \/ IsSome(a) /\ IsSome(b) /\ CqlIdentifierEq(Unwrap(a), Unwrap(b))

CqlQualifiedIdentifier(ks, n) == [keyspace |-> ks, name |-> n]

CqlQualifiedIdentifierEq(x, y) ==
    OptionIdentifierEq(x.keyspace, y.keyspace) /\ CqlIdentifierEq(x.name, y.name)

(* An Identifiable is given as [impl, value]; keyspace and identifier are
   the trait's two required methods, per implementing type. *)
Identifiable(i, v) == [impl |-> i, value |-> v]

keyspace(e) ==
    CASE e.impl = "CqlIdentifier" -> None
      [] e.impl = "CqlColumn" -> None
      [] e.impl = "CqlQualifiedIdentifier" -> e.value.keyspace
      [] e.impl = "CqlUserDefinedType" -> e.value.name.keyspace
      [] e.impl = "CqlTable" -> e.value.name.keyspace

identifier(e) ==
    CASE e.impl = "CqlIdentifier" -> e.value
      [] e.impl = "CqlColumn" -> e.value.name
      [] e.impl = "CqlUserDefinedType" -> e.value.name.name
      [] e.impl = "CqlTable" -> e.value.name.name

(* impl Identifiable for CqlQualifiedIdentifier: its one method gives the
   contextualized identifier directly. *)
CqlQualifiedIdentifier_identifier(q, ks) ==
    IF IsSome(q.keyspace)
    THEN CqlQualifiedIdentifier(q.keyspace, q.name)
    ELSE CqlQualifiedIdentifier(ks, q.name)

contextualized_keyspace_ambient_wins(e, ks) ==
    IF IsSome(ks) THEN ks ELSE keyspace(e)

contextualized_keyspace(e, ks) ==
    IF IsSome(keyspace(e)) THEN keyspace(e) ELSE ks

contextualized_identifier(e, ks) ==
    IF e.impl = "CqlQualifiedIdentifier"
    THEN CqlQualifiedIdentifier_identifier(e.value, ks)
    ELSE CqlQualifiedIdentifier(contextualized_keyspace(e, ks), identifier(e))

-----------------------------------------------------------------------------
(* model/cql_type.rs: the type tree, for both phases.  `udt` holds the raw
   identifier before linking and the Rc of the resolved UDT after it. *)

Scalar(tag) == [tag |-> tag, inner |-> <<>>, udt |-> None]
FROZEN(t) == [tag |-> "FROZEN", inner |-> <<t>>, udt |-> None]
MAP(k, v) == [tag |-> "MAP", inner |-> <<k, v>>, udt |-> None]
SET(t) == [tag |-> "SET", inner |-> <<t>>, udt |-> None]
LIST(t) == [tag |-> "LIST", inner |-> <<t>>, udt |-> None]
TUPLE(ts) == [tag |-> "TUPLE", inner |-> ts, udt |-> None]
UserDefined(u) == [tag |-> "UserDefined", inner |-> <<>>, udt |-> Some(u)]

(* model/table/*.rs, model/user_defined_type.rs, model/statement.rs *)

CqlColumn(n, t, st, pk) ==
    [name |-> n, cql_type |-> t, is_static |-> st, is_primary_key |-> pk]
CqlPrimaryKey(pk, cc) == [partition_key |-> pk, clustering_columns |-> cc]
CqlTableOptions(cs, co, os) ==
    [compact_storage |-> cs, clustering_order |-> co, options |-> os]
CqlTable(ine, n, cols, pk, os) ==
    [if_not_exists |-> ine, name |-> n, columns |-> cols, primary_key |-> pk,
     options |-> os]
CqlUserDefinedType(ine, n, fs) == [if_not_exists |-> ine, name |-> n, fields |-> fs]

CreateTable(t) == [kind |-> "CreateTable", body |-> t]
CreateUserDefinedType(u) == [kind |-> "CreateUserDefinedType", body |-> u]

(* A linked statement holds the Rc of its table or UDT. *)
Linked(k, rc) == [kind |-> k, rc |-> rc]

create_user_defined_type(stmt) ==
    IF stmt.kind = "CreateUserDefinedType" THEN Some(stmt.rc) ELSE None

-----------------------------------------------------------------------------
(* The last error in order instead of the first *)
CollectLastError(rs) ==
    IF \E i \in DOMAIN rs : ~rs[i].ok
    THEN rs[CHOOSE i \in DOMAIN rs : ~rs[i].ok /\ \A j \in DOMAIN rs : ~rs[j].ok => j <= i]
    ELSE Ok([i \in DOMAIN rs |-> Unwrap(rs[i].val)])

(* collect::<Result<Vec<_>, _>>() over a sequence of results: the first
   error in order, or the sequence of the values. *)
Collect(rs) ==
    IF \E i \in DOMAIN rs : ~rs[i].ok
    THEN rs[Min({i \in DOMAIN rs : ~rs[i].ok})]
    ELSE Ok([i \in DOMAIN rs |-> Unwrap(rs[i].val)])

(* The error as the identifier was written, without the keyspace *)
ok_or_as_written(found, name, ks) ==
    IF IsSome(found) THEN Ok(Unwrap(found))
    ELSE Err(contextualized_identifier(Identifiable("CqlIdentifier", name), None))

(* Option<Rc<_>>::ok_or(identifier.contextualized_identifier(keyspace)) *)
ok_or(found, name, ks) ==
    IF IsSome(found) THEN Ok(Unwrap(found))
    ELSE Err(contextualized_identifier(Identifiable("CqlIdentifier", name), ks))

(* CqlType::reference_types, the UserDefined arm: the first statement of the
   context that is a CREATE TYPE whose contextualized identifier equals the
   reference's, both contextualized with the keyspace of the referencing
   statement. *)
UdtMatches(ctx, hp, udt, ks) ==
    {i \in 1..Len(ctx) :
        /\ IsSome(create_user_defined_type(ctx[i]))
        /\ CqlQualifiedIdentifierEq(
             contextualized_identifier(
               Identifiable("CqlUserDefinedType", hp[ctx[i].rc]), ks),
             contextualized_identifier(Identifiable("CqlIdentifier", udt), ks))}

PickIndex(ctx, hits) ==
    IF hits = {} THEN None ELSE Some(Min(hits))

(* Iterator::find: the first match; Rc::clone of the statement's cell *)
PickFirst(ctx, hits) ==
    IF hits = {} THEN None ELSE Some(ctx[Min(hits)].rc)

FindUdtLast(ctx, hp, udt, ks) ==
    IF UdtMatches(ctx, hp, udt, ks) = {} THEN None
    ELSE Some(ctx[CHOOSE m \in UdtMatches(ctx, hp, udt, ks) :
                    \A n \in UdtMatches(ctx, hp, udt, ks) : n <= m].rc)

FindUdt(ctx, hp, udt, ks) == PickFirst(ctx, UdtMatches(ctx, hp, udt, ks))

WrapUserDefined(r) == IF r.ok THEN Ok(UserDefined(Unwrap(r.val))) ELSE r

WrapTypeSwapped(tag, r) ==
    IF r.ok
    THEN Ok([tag |-> tag,
             inner |-> [i \in 1..Len(Unwrap(r.val)) |->
                          Unwrap(r.val)[Len(Unwrap(r.val)) + 1 - i]],
             udt |-> None])
    ELSE r

WrapType(tag, r) ==
    IF r.ok THEN Ok([tag |-> tag, inner |-> Unwrap(r.val), udt |-> None]) ELSE r

RECURSIVE CqlType_reference_types(_, _, _, _)
CqlType_reference_types(t, ks, ctx, hp) ==
    IF t.tag = "UserDefined"
    THEN WrapUserDefined(
           ok_or(FindUdt(ctx, hp, Unwrap(t.udt), ks), Unwrap(t.udt), ks))
    ELSE WrapType(t.tag,
           Collect([i \in 1..Len(t.inner) |->
                      CqlType_reference_types(t.inner[i], ks, ctx, hp)]))

WrapColumnSwappedFlags(c, r) ==
    IF r.ok
    THEN Ok(CqlColumn(c.name, Unwrap(r.val), c.is_primary_key, c.is_static))
    ELSE r

WrapColumn(c, r) ==
    IF r.ok
    THEN Ok(CqlColumn(c.name, Unwrap(r.val), c.is_static, c.is_primary_key))
    ELSE r

(* CqlColumn::reference_types *)
CqlColumn_reference_types(c, ks, ctx, hp) ==
    WrapColumn(c, CqlType_reference_types(c.cql_type, ks, ctx, hp))

(* The lookup shared by CqlPrimaryKey::reference_types and
   CqlTableOptions::reference_types: the first column of the table, given as
   Rcs `cols`, whose contextualized identifier equals the name's. *)
ColumnMatches(cols, hp, column, ks) ==
    {i \in 1..Len(cols) :
        CqlQualifiedIdentifierEq(
          contextualized_identifier(Identifiable("CqlColumn", hp[cols[i]]), ks),
          contextualized_identifier(Identifiable("CqlIdentifier", column), ks))}

PickColumn(cols, hits) ==
    IF hits = {} THEN None ELSE Some(cols[Min(hits)])

FindColumnAny(cols, hp, column, ks) ==
    IF Len(cols) = 0 THEN None ELSE Some(cols[1])

FindColumn(cols, hp, column, ks) ==
    PickColumn(cols, ColumnMatches(cols, hp, column, ks))

(* names.into_iter().map(find).collect::<Result<Vec<_>, _>>() *)
ReferenceColumns(names, cols, hp, ks) ==
    Collect([i \in 1..Len(names) |->
               ok_or(FindColumn(cols, hp, names[i], ks), names[i], ks)])

(* The `?` on the partition key comes before the clustering columns'. *)
WrapPrimaryKey(p, c) ==
    IF ~p.ok THEN p
    ELSE IF ~c.ok THEN c
    ELSE Ok(CqlPrimaryKey(Unwrap(p.val), Unwrap(c.val)))

(* CqlPrimaryKey::reference_types *)
CqlPrimaryKey_reference_types(pk, ks, cols, hp) ==
    WrapPrimaryKey(ReferenceColumns(pk.partition_key, cols, hp, ks),
                   ReferenceColumns(pk.clustering_columns, cols, hp, ks))

WrapTableOptionsDefault(os, r) ==
    IF ~r.ok THEN r
    ELSE Ok(CqlTableOptions(
              FALSE,
              [i \in 1..Len(os.clustering_order) |-> <<Unwrap(r.val)[i], "Asc">>],
              os.options))

WrapTableOptions(os, r) ==
    IF ~r.ok THEN r
    ELSE Ok(CqlTableOptions(
              os.compact_storage,
              [i \in 1..Len(os.clustering_order) |->
                 <<Unwrap(r.val)[i], os.clustering_order[i][2]>>],
              os.options))

(* CqlTableOptions::reference_types; an entry of clustering_order is
   <<column, order>>. *)
CqlTableOptions_reference_types(os, ks, cols, hp) ==
    WrapTableOptions(os,
      ReferenceColumns(
        [i \in 1..Len(os.clustering_order) |-> os.clustering_order[i][1]],
        cols, hp, ks))

(* Option<T>::map(reference_types).transpose() *)
Transpose(r) == IF r.ok THEN Ok(r.val) ELSE r

LinkPrimaryKey(t, ks, cols, hp) ==
    IF IsSome(t.primary_key)
    THEN Transpose(CqlPrimaryKey_reference_types(Unwrap(t.primary_key), ks, cols, hp))
    ELSE Ok(None)

LinkOptions(t, ks, cols, hp) ==
    IF IsSome(t.options)
    THEN Transpose(CqlTableOptions_reference_types(Unwrap(t.options), ks, cols, hp))
    ELSE Ok(None)

(* The tail of CqlTable::reference_types: `?` on the primary key, then on
   the options, then the table. *)
WrapTable(t, cols, hp, pk, os) ==
    IF ~pk.ok THEN pk
    ELSE IF ~os.ok THEN os
    ELSE Ok([cells |-> hp,
             value |-> CqlTable(t.if_not_exists, t.name, cols,
                                Unwrap(pk.val), Unwrap(os.val))])

LinkKeys(t, ks, cols, hp) ==
    WrapTable(t, cols, hp, LinkPrimaryKey(t, ks, cols, hp),
              LinkOptions(t, ks, cols, hp))

(* The keys linked against a second set of Rcs holding copies of the columns *)
LinkColumnsCopied(t, ks, hp, rs) ==
    IF ~rs.ok THEN rs
    ELSE WrapTable(t, [i \in 1..Len(t.columns) |-> Len(hp) + i],
           hp \o Unwrap(rs.val) \o Unwrap(rs.val),
           LinkPrimaryKey(t, ks,
             [i \in 1..Len(t.columns) |-> Len(hp) + Len(t.columns) + i],
             hp \o Unwrap(rs.val) \o Unwrap(rs.val)),
           LinkOptions(t, ks,
             [i \in 1..Len(t.columns) |-> Len(hp) + Len(t.columns) + i],
             hp \o Unwrap(rs.val) \o Unwrap(rs.val)))

(* Every linked column goes behind a new Rc, in column order. *)
LinkColumns(t, ks, hp, rs) ==
    IF ~rs.ok THEN rs
    ELSE LinkKeys(t, ks, [i \in 1..Len(t.columns) |-> Len(hp) + i],
                  hp \o Unwrap(rs.val))

LinkTable(t, ks, ctx, hp) ==
    LinkColumns(t, ks, hp,
      Collect([i \in 1..Len(t.columns) |->
                 CqlColumn_reference_types(t.columns[i], ks, ctx, hp)]))

(* CqlTable::reference_types.  The columns are linked first, the primary key
   and the options are then linked against the columns' Rcs.  The value is
   the cells of the heap, with the columns' added, and the linked table. *)
CqlTable_reference_types(t, ks0, ctx, hp) ==
    LinkTable(t,
      contextualized_keyspace(Identifiable("CqlQualifiedIdentifier", t.name), ks0),
      ctx, hp)

WrapUserDefinedType(u, hp, rs) ==
    IF ~rs.ok THEN rs
    ELSE Ok([cells |-> hp,
             value |-> CqlUserDefinedType(
                 u.if_not_exists, u.name,
                 [i \in 1..Len(u.fields) |-> <<u.fields[i][1], Unwrap(rs.val)[i]>>])])

LinkFields(u, ks, ctx, hp) ==
    WrapUserDefinedType(u, hp,
      Collect([i \in 1..Len(u.fields) |->
                 CqlType_reference_types(u.fields[i][2], ks, ctx, hp)]))

(* The fields linked with the UDT under construction already in the context *)
ParsedCqlUserDefinedType_reference_types_self(u, ks0, ctx, hp) ==
    WrapUserDefinedType(u, hp,
      Collect([i \in 1..Len(u.fields) |->
                 CqlType_reference_types(u.fields[i][2],
                   IF IsSome(u.name.keyspace) THEN u.name.keyspace ELSE ks0,
                   Append(ctx, Linked("CreateUserDefinedType", Len(hp) + 1)),
                   Append(hp, CqlUserDefinedType(u.if_not_exists, u.name, <<>>)))]))

(* ParsedCqlUserDefinedType::reference_types; a field is <<name, type>>. *)
ParsedCqlUserDefinedType_reference_types(u, ks0, ctx, hp) ==
    LinkFields(u, IF IsSome(u.name.keyspace) THEN u.name.keyspace ELSE ks0,
               ctx, hp)

(* Rc::new of the linked table or UDT: the cell is appended to the heap. *)
RcNew(kind, r) ==
    IF ~r.ok THEN r
    ELSE Ok([cells |-> Append(Unwrap(r.val).cells, Unwrap(r.val).value),
             linked |-> Linked(kind, Len(Unwrap(r.val).cells) + 1)])

(* CqlStatement::reference_types.  The value is the cells of the heap after
   the allocation and the linked statement. *)
CqlStatement_reference_types(stmt, ks, ctx, hp) ==
    IF stmt.kind = "CreateTable"
    THEN RcNew(stmt.kind, CqlTable_reference_types(stmt.body, ks, ctx, hp))
    ELSE RcNew(stmt.kind,
               ParsedCqlUserDefinedType_reference_types(stmt.body, ks, ctx, hp))

-----------------------------------------------------------------------------
(* The linking pass over a script: statements are taken in script order,
   each linked against the statements linked before it.  `pos` statements
   have been handed to reference_types so far. *)

FailureWithPartial(e, ctx) == [ok |-> FALSE, val |-> Some(ctx), err |-> Some(e)]

(* `?` on the statement's result: the error alone is returned. *)
Failure(e, ctx) == Err(e)

TypesFirst(scr) ==
    SelectSeq(scr, LAMBDA st : st.kind = "CreateUserDefinedType")
      \o SelectSeq(scr, LAMBDA st : st.kind # "CreateUserDefinedType")

(* The order in which the loop takes the statements: the script's. *)
InOrder(scr) == scr

Linking == IsNone(result)

(* The statement put before the statements linked so far *)
PushFront(r) ==
    /\ r.ok
    /\ context' = <<Unwrap(r.val).linked>> \o context
    /\ heap' = Unwrap(r.val).cells

(* statements.push(statement) *)
Push(r) ==
    /\ r.ok
    /\ context' = Append(context, Unwrap(r.val).linked)
    /\ heap' = Unwrap(r.val).cells

(* The early return of `?`: the statements linked so far are dropped. *)
Return(r) ==
    /\ ~r.ok
    /\ result' = Some(Failure(Unwrap(r.err), context))
    /\ context' = <<>>
    /\ heap' = <<>>

LinkStatement ==
    /\ Linking
    /\ pos < Len(script)
    /\ Push(CqlStatement_reference_types(
              InOrder(script)[pos + 1], ambient, context, heap))
    /\ pos' = pos + 1
    /\ UNCHANGED <<script, ambient, result, arg, res>>

LinkFailure ==
    /\ Linking
    /\ pos < Len(script)
    /\ Return(CqlStatement_reference_types(
                InOrder(script)[pos + 1], ambient, context, heap))
    /\ pos' = pos + 1
    /\ UNCHANGED <<script, ambient, arg, res>>

LinkDone ==
    /\ Linking
    /\ pos = Len(script)
    /\ result' = Some(Ok(context))
    /\ context' = <<>>
    /\ UNCHANGED <<script, ambient, heap, pos, arg, res>>

-----------------------------------------------------------------------------
(* Bounded inputs of the linking pass *)

MaxStatements == 3

ks1 == Unquoted("ks1")
ks2 == Unquoted("ks2")
Ambients == {None, Some(ks1), Some(ks2)}

INT == Scalar("INT")
TEXT == Scalar("TEXT")

Name(t) == CqlQualifiedIdentifier(None, Unquoted(t))
NameIn(k, t) == CqlQualifiedIdentifier(Some(k), Unquoted(t))

UdtNames == {Name("my_type"), NameIn(ks2, "my_type"), Name("node_t")}
FieldTypes == {INT, FROZEN(UserDefined(Unquoted("my_type")))}
UdtStatements ==
    {CreateUserDefinedType(CqlUserDefinedType(FALSE, n, <<<<Unquoted("x1"), ft>>>>)) :
        n \in UdtNames, ft \in FieldTypes}

TableNames == {Name("t1"), NameIn(ks2, "t1")}
ColumnTypes == {TEXT, UserDefined(Unquoted("My_Type")),
                MAP(TEXT, UserDefined(Quoted("node_t")))}
TableStatements ==
    {CreateTable(CqlTable(TRUE, n,
        <<CqlColumn(Unquoted("a1"), INT, FALSE, TRUE),
          CqlColumn(Unquoted("b1"), ct, FALSE, FALSE)>>, None, None)) :
        n \in TableNames, ct \in ColumnTypes}

Statements == UdtStatements \cup TableStatements

ScriptsOfLength(n) == [1..n -> Statements]

(* One table with every shape of primary key and options, alone or after
   the definition of my_type. *)
PartitionKeys == {<<Unquoted("a1")>>, <<Unquoted("z1")>>,
                  <<Unquoted("A1"), Quoted("b1")>>}
ClusteringColumns == {<<>>, <<Unquoted("B1")>>, <<Quoted("B1")>>}
PrimaryKeys ==
    {None} \cup {Some(CqlPrimaryKey(p, c)) : p \in PartitionKeys, c \in ClusteringColumns}
TableOptions ==
    {None, Some(CqlTableOptions(TRUE, <<>>, <<>>)),
     Some(CqlTableOptions(FALSE, <<<<Unquoted("b1"), "Desc">>>>, <<>>)),
     Some(CqlTableOptions(FALSE,
        <<<<Unquoted("a1"), "Asc">>, <<Unquoted("z2"), "Desc">>>>, <<>>))}
KeyedTables ==
    {CreateTable(CqlTable(FALSE, n,
        <<CqlColumn(Unquoted("a1"), INT, FALSE, FALSE),
          CqlColumn(Unquoted("b1"), ct, TRUE, FALSE)>>, pk, os)) :
        n \in TableNames, ct \in {TEXT, UserDefined(Unquoted("my_type"))},
        pk \in PrimaryKeys, os \in TableOptions}
MyType ==
    CreateUserDefinedType(CqlUserDefinedType(TRUE, Name("my_type"),
        <<<<Unquoted("x1"), INT>>>>))
KeyedScripts == {<<t>> : t \in KeyedTables} \cup {<<MyType, t>> : t \in KeyedTables}

(* Scripts with quoted and unquoted names that differ in case only: two
   UDTs and a table referring to one of them, and a table with two such
   columns and a key naming one of them. *)
QuotedNames == {Quoted("My_Type"), Unquoted("MY_TYPE"), Quoted("my_type")}
QuotedColumns == {Quoted("A1"), Unquoted("a1"), Quoted("a1")}
HomonymScripts ==
    {<<CreateUserDefinedType(CqlUserDefinedType(FALSE,
          CqlQualifiedIdentifier(None, d), <<<<Unquoted("x1"), INT>>>>)),
       CreateUserDefinedType(CqlUserDefinedType(FALSE,
          CqlQualifiedIdentifier(None, e), <<<<Unquoted("x1"), TEXT>>>>)),
       CreateTable(CqlTable(FALSE, Name("t1"),
          <<CqlColumn(Unquoted("a1"), UserDefined(r), FALSE, FALSE)>>,
          None, None))>> : d, e, r \in QuotedNames}
    \cup
    {<<CreateTable(CqlTable(FALSE, Name("t1"),
          <<CqlColumn(c, INT, FALSE, FALSE), CqlColumn(d, TEXT, FALSE, FALSE)>>,
          Some(CqlPrimaryKey(<<r>>, <<>>)),
          Some(CqlTableOptions(FALSE, <<<<r, "Asc">>>>, <<>>))))>> :
        c, d, r \in QuotedColumns}

(* A table of the name my_type, before or in place of the type my_type, and
   a table with a column of the type my_type after them *)
ShadowScripts ==
    {<<CreateTable(CqlTable(FALSE, Name("my_type"),
          <<CqlColumn(Unquoted("a1"), INT, FALSE, FALSE)>>, None, None))>>
       \o mid \o
     <<CreateTable(CqlTable(FALSE, Name("t1"),
          <<CqlColumn(Unquoted("a1"), LIST(UserDefined(Unquoted("my_type"))),
                      FALSE, FALSE)>>, None, None))>> :
       mid \in {<<>>} \cup {<<u>> : u \in UdtStatements} \cup
               {<<u, v>> : u, v \in UdtStatements}}

(* Two tables of the same columns, each with a primary key and some with a
   clustering order *)
TwinTables ==
    {CreateTable(CqlTable(FALSE, n,
        <<CqlColumn(Unquoted("a1"), INT, FALSE, FALSE),
          CqlColumn(Unquoted("b1"), TEXT, FALSE, FALSE)>>, Some(pk), os)) :
        n \in TableNames,
        pk \in {CqlPrimaryKey(<<Unquoted("b1"), Quoted("a1")>>, <<>>),
                CqlPrimaryKey(<<Unquoted("A1")>>, <<Unquoted("B1")>>)},
        os \in {None,
                Some(CqlTableOptions(FALSE, <<<<Unquoted("b1"), "Desc">>>>, <<>>))}}
TwinScripts == {<<t, u>> : t, u \in TwinTables}

(* Statements with several references that may be unresolved: in one
   column type, in two columns, in the partition key, the clustering columns
   and the clustering order of a table, and in two fields of a UDT *)
ManyRefTables ==
    {CreateTable(CqlTable(FALSE, Name("t1"),
        <<CqlColumn(Unquoted("a1"), c1, FALSE, FALSE),
          CqlColumn(Unquoted("b1"), c2, FALSE, FALSE)>>, Some(pk), os)) :
        c1 \in {INT, MAP(UserDefined(Unquoted("ua1")),
                         TUPLE(<<UserDefined(Unquoted("my_type")),
                                 UserDefined(Unquoted("ua2"))>>))},
        c2 \in {TEXT, UserDefined(Unquoted("ua3"))},
        pk \in {CqlPrimaryKey(<<Unquoted("a1")>>, <<>>),
                CqlPrimaryKey(<<Unquoted("z1")>>, <<Unquoted("z2")>>),
                CqlPrimaryKey(<<Unquoted("a1"), Unquoted("z1")>>,
                              <<Unquoted("b1"), Unquoted("z2")>>)},
        os \in {None,
                Some(CqlTableOptions(FALSE, <<<<Unquoted("z3"), "Asc">>>>, <<>>))}}
ManyRefTypes ==
    {CreateUserDefinedType(CqlUserDefinedType(FALSE, Name("node_t"),
        <<<<Unquoted("x1"), f1>>, <<Unquoted("x2"), f2>>>>)) :
        f1 \in {INT, LIST(UserDefined(Unquoted("ua1")))},
        f2 \in {UserDefined(Unquoted("ua2")), SET(UserDefined(Unquoted("my_type")))}}
ManyRefScripts ==
    {<<s>> : s \in ManyRefTables \cup ManyRefTypes}
    \cup {<<MyType, s>> : s \in ManyRefTables \cup ManyRefTypes}
    \cup {<<u, t>> : u \in ManyRefTypes, t \in ManyRefTables}

Init ==
    /\ \/ \E n \in 0..MaxStatements : script \in ScriptsOfLength(n)
       \/ script \in KeyedScripts
       \/ script \in HomonymScripts
       \/ script \in TwinScripts
       \/ script \in ManyRefScripts
       \/ script \in ShadowScripts
    /\ ambient \in Ambients
    /\ context = <<>>
    /\ heap = <<>>
    /\ pos = 0
    /\ result = None
    /\ arg = None
    /\ res = None

Next == LinkStatement \/ LinkFailure \/ LinkDone

Spec == Init /\ [][Next]_vars

-----------------------------------------------------------------------------
(* What a script says, read off the statements before any linking: the UDT
   references of a statement, the keyspace they are looked up in, and the
   CREATE TYPE statements that define a reference. *)

RECURSIVE Refs(_)
Refs(t) ==
    IF t.tag = "UserDefined" THEN {Unwrap(t.udt)}
    ELSE UNION {Refs(t.inner[i]) : i \in 1..Len(t.inner)}

StmtTypes(stmt) ==
    IF stmt.kind = "CreateTable"
    THEN {stmt.body.columns[i].cql_type : i \in 1..Len(stmt.body.columns)}
    ELSE {stmt.body.fields[i][2] : i \in 1..Len(stmt.body.fields)}

StmtRefs(stmt) == UNION {Refs(t) : t \in StmtTypes(stmt)}

StmtKeyspace(stmt) ==
    IF IsSome(stmt.body.name.keyspace) THEN stmt.body.name.keyspace ELSE ambient

NameOf(n, ks) == contextualized_identifier(Identifiable("CqlIdentifier", n), ks)

Defines(d, u, ks) ==
    /\ d.kind = "CreateUserDefinedType"
    /\ CqlQualifiedIdentifierEq(
         contextualized_identifier(Identifiable("CqlQualifiedIdentifier", d.body.name), ks),
         NameOf(u, ks))

(* The statements before / after statement k that define reference u of k *)
DefinedBefore(k, u) ==
    {j \in 1..(k - 1) : Defines(script[j], u, StmtKeyspace(script[k]))}
DefinedAfter(k, u) ==
    {j \in (k + 1)..Len(script) : Defines(script[j], u, StmtKeyspace(script[k]))}

Undefined(k) == {u \in StmtRefs(script[k]) : DefinedBefore(k, u) = {}}
Forward(k) == {u \in Undefined(k) : DefinedAfter(k, u) # {}}

Failed == IsSome(result) /\ ~Unwrap(result).ok
Succeeded == IsSome(result) /\ Unwrap(result).ok
Error == Unwrap(Unwrap(result).err)

(* The linked statements: those of the running pass, or the returned ones *)
Resolved == IF Succeeded THEN Unwrap(Unwrap(result).val) ELSE context

(* C1: a statement with a reference that only a later CREATE TYPE defines
   makes the resolution of the script fail, never succeed; when it is the
   first statement with an undefined reference, the error is one of its
   undefined references, contextualized with the statement's keyspace. *)
C1_ForwardReferenceFails ==
    \A k \in 1..Len(script) :
        Forward(k) # {} =>
            /\ ~Succeeded
            /\ (Failed /\ pos = k) =>
                 Error \in {NameOf(u, StmtKeyspace(script[k])) : u \in Undefined(k)}
            /\ (IsSome(result) /\ \A j \in 1..(k - 1) : Undefined(j) = {}) =>
                 (Failed /\ pos = k)

C1_Witness ==
    /\ Failed
    /\ pos = 1
    /\ Len(script) = 2
    /\ script[1].kind = "CreateTable"
    /\ Forward(1) # {}
    /\ Error = NameOf(Unquoted("My_Type"), None)

(* The names a table's primary key and clustering order use, and those of
   them that equal no column of the table. *)
PkNames(t) ==
    IF IsSome(t.primary_key)
    THEN {Unwrap(t.primary_key).partition_key[i] :
            i \in 1..Len(Unwrap(t.primary_key).partition_key)}
         \cup {Unwrap(t.primary_key).clustering_columns[i] :
            i \in 1..Len(Unwrap(t.primary_key).clustering_columns)}
    ELSE {}

OrderNames(t) ==
    IF IsSome(t.options)
    THEN {Unwrap(t.options).clustering_order[i][1] :
            i \in 1..Len(Unwrap(t.options).clustering_order)}
    ELSE {}

IsColumn(t, n, ks) ==
    \E i \in 1..Len(t.columns) :
        CqlQualifiedIdentifierEq(
          contextualized_identifier(Identifiable("CqlColumn", t.columns[i]), ks),
          NameOf(n, ks))

Missing(k) ==
    IF script[k].kind = "CreateTable"
    THEN {n \in PkNames(script[k].body) \cup OrderNames(script[k].body) :
            ~IsColumn(script[k].body, n, StmtKeyspace(script[k]))}
    ELSE {}

(* A linked type tree has the shape of the parsed one, and every reference
   of statement k holds the Rc of a resolved statement that defines it. *)
RECURSIVE TypeLinked(_, _, _)
TypeLinked(raw, linked, k) ==
    /\ linked.tag = raw.tag
    /\ IF raw.tag = "UserDefined"
       THEN linked.udt \in
              {Some(Resolved[j].rc) : j \in DefinedBefore(k, Unwrap(raw.udt))}
       ELSE /\ Len(linked.inner) = Len(raw.inner)
            /\ \A i \in 1..Len(raw.inner) :
                 TypeLinked(raw.inner[i], linked.inner[i], k)

ColumnsLinked(t, cell, k) ==
    /\ Len(cell.columns) = Len(t.columns)
    /\ \A i \in 1..Len(t.columns) :
         TypeLinked(t.columns[i].cql_type, heap[cell.columns[i]].cql_type, k)

FieldsLinked(u, cell, k) ==
    /\ Len(cell.fields) = Len(u.fields)
    /\ \A i \in 1..Len(u.fields) :
         TypeLinked(u.fields[i][2], cell.fields[i][2], k)

StatementLinked(k) ==
    IF script[k].kind = "CreateTable"
    THEN ColumnsLinked(script[k].body, heap[Resolved[k].rc], k)
    ELSE FieldsLinked(script[k].body, heap[Resolved[k].rc], k)

(* C2: a reference to a type that an earlier CREATE TYPE of the script
   defines under an equal contextualized name resolves: the statement does
   not fail on it, and the resolved type is UserDefined(h) with h the very Rc
   that the list of resolved statements holds for that CREATE TYPE. *)
C2_BackwardReferenceShared ==
    /\ \A k \in 1..Len(Resolved) : StatementLinked(k)
    /\ \A k \in 1..Len(script) :
         (Failed /\ pos = k /\ Undefined(k) = {}) => Missing(k) # {}

C2_Witness ==
    /\ Succeeded
    /\ Len(script) = 3
    /\ script[1].kind = "CreateTable"
    /\ script[2].kind = "CreateUserDefinedType"
    /\ script[3].kind = "CreateTable"
    /\ heap[heap[Resolved[3].rc].columns[2]].cql_type = UserDefined(Resolved[2].rc)
    /\ heap[Resolved[2].rc].name = Name("my_type")

(* C3: when statement k fails, the result is the failing qualified
   identifier alone: no resolved statement is returned or kept, k - 1
   statements resolved before it, and once the result is there no further
   statement is handed to resolution. *)
C3_FailFast ==
    /\ [](Failed =>
            /\ Unwrap(result).val = None
            /\ context = <<>>
            /\ DOMAIN Error = {"keyspace", "name"}
            /\ pos \in 1..Len(script))
    /\ [][IsSome(result) => (pos' = pos /\ result' = result)]_vars

C3_Witness ==
    /\ Failed
    /\ pos = 2
    /\ Len(script) = 3
    /\ Undefined(1) = {}
    /\ Unwrap(result).val = None

(* C6: a table whose column types all resolve fails exactly when its
   PRIMARY KEY or CLUSTERING ORDER BY names something that equals no column
   of the table, and the error is then the contextualized identifier of such
   a name. *)
C6_KeyColumnsOfTheTable ==
    \A k \in 1..Len(script) :
        (pos >= k /\ script[k].kind = "CreateTable" /\ Undefined(k) = {}) =>
            IF Missing(k) = {}
            THEN ~(Failed /\ pos = k)
            ELSE /\ Failed
                 /\ pos = k
                 /\ Error \in {NameOf(n, StmtKeyspace(script[k])) : n \in Missing(k)}

C6_Witness ==
    /\ Failed
    /\ pos = 2
    /\ script[2].kind = "CreateTable"
    /\ Undefined(2) = {}
    /\ Unquoted("z1") \in Missing(2)
    /\ Error = NameOf(Unquoted("z1"), StmtKeyspace(script[2]))

C6_WitnessResolved ==
    /\ Succeeded
    /\ Len(script) = 2
    /\ script[2].kind = "CreateTable"
    /\ PkNames(script[2].body) # {}
    /\ OrderNames(script[2].body) # {}

-----------------------------------------------------------------------------
(* nom: IResult<&str, O>.  Ok((rest, o)), or Err(Error) with the input the
   failing parser was given.  No parser of the grammar cuts, so an error is
   always recoverable by alt, opt and the separated lists. *)

IOk(i, o) == [ok |-> TRUE, rest |-> i, val |-> o]
IErr(i) == [ok |-> FALSE, rest |-> i, val |-> None]

(* `let x = e;`: the value of the body with x bound to e, written as
   The({body : x \in {e}}) so that e is evaluated once *)
The(S) == CHOOSE v \in S : TRUE

(* nom::combinator::map *)
map(r, o) == IF r.ok THEN IOk(r.rest, o) ELSE r

(* nom::combinator::opt on the result r of the parser given `input` *)
opt(r, input) == IF r.ok THEN IOk(r.rest, Some(r.val)) ELSE IOk(input, None)

(* nom::branch::alt of two parsers: the first that succeeds, else the error
   of the last *)
alt(r1, r2) == IF r1.ok THEN r1 ELSE r2

Drop(s, n) == SubSeq(s, n + 1, Len(s))
Take(s, n) == SubSeq(s, 1, n)

starts_with(s, t) == Len(s) >= Len(t) /\ Take(s, Len(t)) = t

(* nom::bytes::complete::tag *)
tag(t, input) ==
    IF starts_with(input, t) THEN IOk(Drop(input, Len(t)), Take(input, Len(t)))
    ELSE IErr(input)

(* nom::bytes::complete::tag_no_case *)
tag_no_case(t, input) ==
    IF Len(input) >= Len(t) /\ eq_ignore_ascii_case(Take(input, Len(t)), t)
    THEN IOk(Drop(input, Len(t)), Take(input, Len(t)))
    ELSE IErr(input)

(* The length of the longest prefix of s made of characters of C *)
PrefixLen(s, C) ==
    CHOOSE n \in 0..Len(s) :
        /\ \A i \in 1..n : Char(s, i) \in C
        /\ n = Len(s) \/ Char(s, n + 1) \notin C

(* split_at_position_complete / split_at_position1_complete *)
SplitAt(input, n, least) ==
    IF n >= least THEN IOk(Drop(input, n), Take(input, n)) ELSE IErr(input)

multispace0(input) == SplitAt(input, PrefixLen(input, SpaceSet), 0)
multispace1(input) == SplitAt(input, PrefixLen(input, SpaceSet), 1)
alpha1(input) == SplitAt(input, PrefixLen(input, UpperSet \cup LowerSet), 1)
take_while1(C, input) == SplitAt(input, PrefixLen(input, C), 1)

(* nom::bytes::complete::take_until: up to the first occurrence of t *)
Occurrences(input, t) == {n \in 0..Len(input) : starts_with(Drop(input, n), t)}
TakeUntilAt(input, hits) ==
    IF hits = {} THEN IErr(input)
    ELSE IOk(Drop(input, Min(hits)), Take(input, Min(hits)))
take_until(t, input) == TakeUntilAt(input, Occurrences(input, t))

-----------------------------------------------------------------------------
(* parse/identifier.rs *)

(* The loop of parse_quoted, entered with the text collected so far.  After
   a quote that is followed by a quote, a quote is pushed and the loop goes
   on from the following quote. *)
RECURSIVE parse_quoted_loop(_, _)
parse_quoted_loop(input, acc) ==
    The({ IF ~s.ok THEN s ELSE
    The({ IF ~i.ok THEN i
          ELSE IF ~starts_with(i.rest, "\"")
          THEN IOk(i.rest, Quoted(acc \o s.val))
          ELSE parse_quoted_loop(i.rest, acc \o s.val \o "\"")
        : i \in {tag("\"", s.rest)} })
        : s \in {take_until("\"", input)} })

parse_quoted(input) ==
    The({ IF ~i.ok THEN i ELSE parse_quoted_loop(i.rest, "")
        : i \in {tag("\"", input)} })

(* |c| c.is_alpha() || c.is_dec_digit() || c == '_' *)
IdentifierChars == UpperSet \cup LowerSet \cup DigitSet \cup {"_"}

parse_unquoted(input) ==
    The({ IF ~first.ok THEN first ELSE
    The({ IF ~rest.ok THEN rest
          ELSE IOk(rest.rest, Unquoted(Take(input, Len(first.val) + Len(rest.val))))
        : rest \in {take_while1(IdentifierChars, first.rest)} })
        : first \in {alpha1(input)} })

CqlIdentifier_parse(input) == alt(parse_quoted(input), parse_unquoted(input))

(* parse/qualified_identifier.rs *)
CqlQualifiedIdentifier_parse(input) ==
    The({ IF ~name_or_keyspace.ok THEN name_or_keyspace ELSE
    The({ IF IsNone(dot.val)
          THEN IOk(dot.rest, CqlQualifiedIdentifier(None, name_or_keyspace.val))
          ELSE The({ IF ~name.ok THEN name
                     ELSE IOk(name.rest,
                              CqlQualifiedIdentifier(Some(name_or_keyspace.val), name.val))
                   : name \in {CqlIdentifier_parse(multispace0(dot.rest).rest)} })
        : dot \in {opt(tag(".", multispace0(name_or_keyspace.rest).rest),
                       multispace0(name_or_keyspace.rest).rest)} })
        : name_or_keyspace \in {CqlIdentifier_parse(input)} })

-----------------------------------------------------------------------------
(* The identifier functions on their own: one call of parse_unquoted, of
   parse_quoted or of CqlIdentifier's `==`, on an input of a bounded set.
   `arg` is the call, `res` its value once it has returned. *)

Idle ==
    /\ script = <<>>
    /\ ambient = None
    /\ context = <<>>
    /\ heap = <<>>
    /\ pos = 0
    /\ result = None

Called(f) == arg[1] = f /\ IsNone(res)
Returned(f) == arg[1] = f /\ IsSome(res)

UnquotedHeads == {"", "a", "Z", "ab", "q1", "x_", "_", "1", " a"}
UnquotedTails == {"", "c", "1", "_", " int", "(", ".t", "\"", "-"}
UnquotedInputs == {h \o t : h \in UnquotedHeads, t \in UnquotedTails}

QuotedPieces == {"", "a", "\"\"", "b"}
QuotedBodies == {x \o y \o z : x, y, z \in QuotedPieces}
QuotedTails == {"", "\"", "\" int", "\".t"}
QuotedInputs ==
    {"\"" \o b \o t : b \in QuotedBodies, t \in QuotedTails} \cup {"", "a\"", " \"a\""}

IdentifierTexts == {"ab", "AB", "aB", "a_1", "A_1", "abc", "b"}
Identifiers == {Unquoted(t) : t \in IdentifierTexts} \cup {Quoted(t) : t \in IdentifierTexts}

InitIdentifier ==
    /\ Idle
    /\ res = None
    /\ \/ arg \in {<<"parse_unquoted", s>> : s \in UnquotedInputs}
       \/ arg \in {<<"parse_quoted", s>> : s \in QuotedInputs}
       \/ arg \in {<<"eq", x, y>> : x \in Identifiers, y \in Identifiers}
       \/ arg \in {<<"eq3", x, y, z>> :
                     x \in Identifiers, y \in Identifiers, z \in Identifiers}

ParseUnquoted ==
    /\ Called("parse_unquoted")
    /\ res' = Some(parse_unquoted(arg[2]))
    /\ UNCHANGED <<script, ambient, context, heap, pos, result, arg>>

ParseQuoted ==
    /\ Called("parse_quoted")
    /\ res' = Some(parse_quoted(arg[2]))
    /\ UNCHANGED <<script, ambient, context, heap, pos, result, arg>>

CompareIdentifiers ==
    /\ Called("eq")
    /\ res' = Some(CqlIdentifierEq(arg[2], arg[3]))
    /\ UNCHANGED <<script, ambient, context, heap, pos, result, arg>>

(* x == y, y == z and x == z of three identifiers *)
CompareThree ==
    /\ Called("eq3")
    /\ res' = Some(<<CqlIdentifierEq(arg[2], arg[3]),
                     CqlIdentifierEq(arg[3], arg[4]),
                     CqlIdentifierEq(arg[2], arg[4])>>)
    /\ UNCHANGED <<script, ambient, context, heap, pos, result, arg>>

NextIdentifier == ParseUnquoted \/ ParseQuoted \/ CompareIdentifiers \/ CompareThree

SpecIdentifier == InitIdentifier /\ [][NextIdentifier]_vars

(* Two characters that are the same letter, whatever their case *)
SameLetter(c, d) ==
    \/ c = d
    \/ \E i \in 1..Len(UpperLetters) :
         {c, d} = {Char(UpperLetters, i), Char(LowerLetters, i)}

EqualIgnoringCase(s, t) ==
    /\ Len(s) = Len(t)
    /\ \A i \in 1..Len(s) : SameLetter(Char(s, i), Char(t, i))

(* C4: two quoted identifiers are equal exactly when their texts are the
   same text; any other pair of identifiers is equal exactly when the texts
   are equal ignoring ASCII case. *)
C4_IdentifierEquality ==
    Returned("eq") =>
        Unwrap(res) = IF arg[2].quoted /\ arg[3].quoted
                      THEN arg[2].text = arg[3].text
                      ELSE EqualIgnoringCase(arg[2].text, arg[3].text)

C4_Witness ==
    /\ Returned("eq")
    /\ arg[2] = Quoted("ab")
    /\ arg[3] = Quoted("AB")
    /\ Unwrap(res) = FALSE

C4_WitnessFolded ==
    /\ Returned("eq")
    /\ arg[2] = Quoted("aB")
    /\ arg[3] = Unquoted("Ab")
    /\ Unwrap(res) = TRUE

(* C8: on an input that begins with an ASCII letter parse_unquoted yields
   Unquoted(p), p the longest prefix of the input made of letters, digits
   and underscores, and leaves the rest of the input; on any other input it
   fails. *)
C8_UnquotedLanguage ==
    Returned("parse_unquoted") =>
        IF Len(arg[2]) > 0 /\ is_alpha(Char(arg[2], 1))
        THEN Unwrap(res) =
               IOk(Drop(arg[2], PrefixLen(arg[2], IdentifierChars)),
                   Unquoted(Take(arg[2], PrefixLen(arg[2], IdentifierChars))))
        ELSE ~Unwrap(res).ok

(* The quoted identifier that begins a text, read pair-wise: a quote that is
   followed by a quote stands for a quote, any other quote closes. `s` is
   the text after the opening quote; <<>> when nothing closes it. *)
RECURSIVE Decoded(_, _)
Decoded(s, acc) ==
    IF s = "" THEN None
    ELSE IF Char(s, 1) # "\"" THEN Decoded(Drop(s, 1), acc \o Char(s, 1))
    ELSE IF starts_with(s, "\"\"") THEN Decoded(Drop(s, 2), acc \o "\"")
    ELSE Some(IOk(Drop(s, 1), Quoted(acc)))

(* C9: parse_quoted yields Quoted(s), s the text between the opening quote
   and the closing one with every doubled quote decoded to one quote, and
   consumes the input through the closing quote; a quote followed by a quote
   never closes. *)
C9_QuotedDecoding ==
    (/\ Returned("parse_quoted")
     /\ starts_with(arg[2], "\"")
     /\ IsSome(Decoded(Drop(arg[2], 1), ""))) =>
        Unwrap(res) = Unwrap(Decoded(Drop(arg[2], 1), ""))

-----------------------------------------------------------------------------
(* Contextualization on its own: one call of contextualized_identifier on an
   identifiable entity of each implementing type, with each ambient
   keyspace. *)

ContextNames == {Unquoted("t"), Quoted("T"), Unquoted("my_type")}
ContextKeyspaces == {None, Some(ks1), Some(ks2), Some(Quoted("KS"))}
ContextQualified ==
    {CqlQualifiedIdentifier(k, n) : k \in ContextKeyspaces, n \in ContextNames}

Entities ==
    {Identifiable("CqlIdentifier", n) : n \in ContextNames}
    \cup {Identifiable("CqlColumn", CqlColumn(n, INT, FALSE, FALSE)) : n \in ContextNames}
    \cup {Identifiable("CqlQualifiedIdentifier", q) : q \in ContextQualified}
    \cup {Identifiable("CqlUserDefinedType", CqlUserDefinedType(FALSE, q, <<>>)) :
            q \in ContextQualified}
    \cup {Identifiable("CqlTable", CqlTable(FALSE, q, <<>>, None, None)) :
            q \in ContextQualified}

InitContext ==
    /\ Idle
    /\ res = None
    /\ arg \in {<<"contextualized_identifier", e, a>> : e \in Entities, a \in Ambients}

Contextualize ==
    /\ Called("contextualized_identifier")
    /\ res' = Some(contextualized_identifier(arg[2], arg[3]))
    /\ UNCHANGED <<script, ambient, context, heap, pos, result, arg>>

NextContext == Contextualize

SpecContext == InitContext /\ [][NextContext]_vars

(* The name an entity is written with: its own keyspace, if it carries one,
   and its name *)
WrittenName(e) ==
    IF e.impl \in {"CqlTable", "CqlUserDefinedType"} THEN e.value.name
    ELSE IF e.impl = "CqlQualifiedIdentifier" THEN e.value
    ELSE IF e.impl = "CqlColumn" THEN CqlQualifiedIdentifier(None, e.value.name)
    ELSE CqlQualifiedIdentifier(None, e.value)

(* C5: the contextualized identifier of an entity has the entity's own
   keyspace when it carries one, whatever the ambient keyspace, and the
   ambient keyspace (possibly absent) otherwise; the name is unchanged. *)
C5_Contextualization ==
    Returned("contextualized_identifier") =>
        /\ Unwrap(res).name = WrittenName(arg[2]).name
        /\ Unwrap(res).keyspace =
             IF IsSome(WrittenName(arg[2]).keyspace)
             THEN WrittenName(arg[2]).keyspace
             ELSE arg[3]

C5_Witness ==
    /\ Returned("contextualized_identifier")
    /\ arg[2] = Identifiable("CqlTable",
                  CqlTable(FALSE, NameIn(ks2, "t"), <<>>, None, None))
    /\ arg[3] = Some(ks1)
    /\ Unwrap(res) = NameIn(ks2, "t")

C5_WitnessAmbient ==
    /\ Returned("contextualized_identifier")
    /\ arg[2] = Identifiable("CqlTable",
                  CqlTable(FALSE, Name("t"), <<>>, None, None))
    /\ arg[3] = Some(ks1)
    /\ Unwrap(res) = NameIn(ks1, "t")

-----------------------------------------------------------------------------
(* utils.rs *)

(* The trailing multispace0 of space0_around, on the result of the parser *)
space0_after(r) == IF r.ok THEN IOk(multispace0(r.rest).rest, r.val) ELSE r

(* space1_tags / space0_tags (exact is TRUE) and space1_tags_no_case /
   space0_tags_no_case: the tags in order, multispace1 between two of them
   and nothing before the first; `out` is the array filled so far. *)
RECURSIVE tags(_, _, _, _)
tags(exact, ts, input, out) ==
    The({ IF ~t.ok THEN t
          ELSE IF Len(ts) = 1 THEN IOk(t.rest, Append(out, t.val))
          ELSE IF ~multispace1(t.rest).ok THEN multispace1(t.rest)
          ELSE tags(exact, Tail(ts), multispace1(t.rest).rest, Append(out, t.val))
        : t \in {IF exact THEN tag(ts[1], input) ELSE tag_no_case(ts[1], input)} })

space1_tags(ts, input) == tags(TRUE, ts, input, <<>>)
space1_tags_no_case(ts, input) == tags(FALSE, ts, input, <<>>)

(* space1_before(space1_tags_no_case(ts)) *)
space1_before_tags(ts, input) ==
    IF multispace1(input).ok
    THEN space1_tags_no_case(ts, multispace1(input).rest)
    ELSE multispace1(input)

(* angle_bracket up to its inner parser: the keyword, space0_tag("<") and
   multispace0 *)
angle_bracket_open(kw, input) ==
    The({ IF ~before.ok THEN before ELSE
    The({ IF ~lt.ok THEN lt ELSE multispace0(lt.rest)
        : lt \in {tag("<", multispace0(before.rest).rest)} })
        : before \in {tag_no_case(kw, input)} })

(* angle_bracket after its inner parser: space0_tag(">") *)
angle_bracket_close(inner) ==
    IF inner.ok THEN map(tag(">", multispace0(inner.rest).rest), inner.val)
    ELSE inner

-----------------------------------------------------------------------------
(* nom::multi::separated_list0 and separated_list1 with tag(",") as the
   separator.  The element parser is named by `of`. *)

RECURSIVE CqlType_parse(_)
RECURSIVE Element(_, _)
RECURSIVE separated_list_rest(_, _, _)

(* After an element: a separator and an element add the element; a missing
   separator or a failing element ends the list before the separator. *)
separated_list_rest(of, input, res0) ==
    The({ IF ~e.ok THEN IOk(input, res0)
          ELSE separated_list_rest(of, e.rest, Append(res0, e.val))
        : e \in {IF tag(",", input).ok
                 THEN Element(of, tag(",", input).rest)
                 ELSE tag(",", input)} })

separated_list0(of, input) ==
    The({ IF ~e.ok THEN IOk(input, <<>>)
          ELSE separated_list_rest(of, e.rest, <<e.val>>)
        : e \in {Element(of, input)} })

separated_list1(of, input) ==
    The({ IF ~e.ok THEN e
          ELSE separated_list_rest(of, e.rest, <<e.val>>)
        : e \in {Element(of, input)} })

-----------------------------------------------------------------------------
(* parse/cql_type.rs *)

(* The scalar alternatives, in the order of the alt *)
ScalarTags ==
    <<"ASCII", "BIGINT", "BLOB", "BOOLEAN", "COUNTER", "DATE", "DECIMAL",
      "DOUBLE", "DURATION", "FLOAT", "INET", "INT", "SMALLINT", "TEXT",
      "TIMESTAMP", "TIMEUUID", "TIME", "TINYINT", "UUID", "VARCHAR", "VARINT">>

FirstScalar(input, hits) ==
    IF hits = {} THEN IErr(input)
    ELSE map(tag_no_case(ScalarTags[Min(hits)], input), Scalar(ScalarTags[Min(hits)]))

parse_scalar(input) ==
    FirstScalar(input,
      {i \in 1..Len(ScalarTags) : tag_no_case(ScalarTags[i], input).ok})

(* lib.rs, CqlNativeType::parse: the same alternatives with TIME before
   TIMESTAMP and TIMEUUID *)
NativeTags ==
    <<"ASCII", "BIGINT", "BLOB", "BOOLEAN", "COUNTER", "DATE", "DECIMAL",
      "DOUBLE", "DURATION", "FLOAT", "INET", "INT", "SMALLINT", "TEXT",
      "TIME", "TIMESTAMP", "TIMEUUID", "TINYINT", "UUID", "VARCHAR", "VARINT">>

FirstNative(input, hits) ==
    IF hits = {} THEN IErr(input)
    ELSE map(tag_no_case(NativeTags[Min(hits)], input), Scalar(NativeTags[Min(hits)]))

CqlNativeType_parse(input) ==
    FirstNative(input,
      {i \in 1..Len(NativeTags) : tag_no_case(NativeTags[i], input).ok})

(* FROZEN, SET, LIST: angle_bracket(tag_no_case(kw), Self::parse) *)
parse_boxed(kw, input) ==
    The({ IF ~open.ok THEN open ELSE
    The({ IF ~ty.ok THEN ty
          ELSE IOk(ty.rest, [tag |-> kw, inner |-> <<ty.val>>, udt |-> None])
        : ty \in {angle_bracket_close(CqlType_parse(open.rest))} })
        : open \in {angle_bracket_open(kw, input)} })

(* seperated(Self::parse, tag(","), Self::parse) *)
seperated(input) ==
    The({ IF ~key.ok THEN key ELSE
    The({ IF ~sep.ok THEN sep ELSE
    The({ IF ~value.ok THEN value
          ELSE IOk(value.rest, <<key.val, value.val>>)
        : value \in {CqlType_parse(multispace0(sep.rest).rest)} })
        : sep \in {tag(",", multispace0(key.rest).rest)} })
        : key \in {CqlType_parse(input)} })

parse_map(input) ==
    The({ IF ~open.ok THEN open ELSE
    The({ IF ~kv.ok THEN kv
          ELSE IOk(kv.rest, MAP(kv.val[1], kv.val[2]))
        : kv \in {angle_bracket_close(seperated(open.rest))} })
        : open \in {angle_bracket_open("MAP", input)} })

parse_tuple(input) ==
    The({ IF ~open.ok THEN open ELSE
    The({ IF ~ty.ok THEN ty ELSE IOk(ty.rest, TUPLE(ty.val))
        : ty \in {angle_bracket_close(separated_list1("CqlType", open.rest))} })
        : open \in {angle_bracket_open("TUPLE", input)} })

parse_user_defined(input) ==
    The({ IF ~ident.ok THEN ident ELSE IOk(ident.rest, UserDefined(ident.val))
        : ident \in {CqlIdentifier_parse(input)} })

CqlType_parse(input) ==
    alt(parse_scalar(input),
    alt(parse_boxed("FROZEN", input),
    alt(parse_map(input),
    alt(parse_boxed("SET", input),
    alt(parse_boxed("LIST", input),
    alt(parse_tuple(input),
        parse_user_defined(input)))))))

-----------------------------------------------------------------------------
(* parse/table/column.rs *)

(* opt(space1_before(tag_no_case(kw))) *)
opt_space1_keyword(kw, input) ==
    opt(IF multispace1(input).ok
        THEN tag_no_case(kw, multispace1(input).rest)
        ELSE multispace1(input),
        input)

CqlColumn_parse(input) ==
    The({ IF ~name.ok THEN name ELSE
    The({ IF ~cql_type.ok THEN cql_type ELSE
    The({
    The({ IOk(is_primary_key.rest,
              CqlColumn(name.val, cql_type.val,
                        IsSome(is_static.val), IsSome(is_primary_key.val)))
        : is_primary_key \in
            {opt(space1_before_tags(<<"PRIMARY", "KEY">>, is_static.rest),
                 is_static.rest)} })
        : is_static \in {opt_space1_keyword("STATIC", cql_type.rest)} })
        : cql_type \in {CqlType_parse(multispace0(name.rest).rest)} })
        : name \in {CqlIdentifier_parse(input)} })

(* parse/table/primary_key.rs *)

(* delimited(tag("("), separated_list1(..), tag(")")) *)
parse_composite(input) ==
    The({ IF ~open.ok THEN open ELSE
    The({ IF ~names.ok THEN names ELSE map(tag(")", names.rest), names.val)
        : names \in {separated_list1("CqlIdentifier", open.rest)} })
        : open \in {tag("(", input)} })

parse_partition_key(input) ==
    alt(The({ IF ~name.ok THEN name ELSE IOk(name.rest, <<name.val>>)
            : name \in {CqlIdentifier_parse(input)} }),
        parse_composite(input))

(* space0_between((tag(","), separated_list1(..))) *)
parse_clustering_columns(input) ==
    IF tag(",", input).ok
    THEN separated_list1("CqlIdentifier", multispace0(tag(",", input).rest).rest)
    ELSE tag(",", input)

CqlPrimaryKey_parse(input) ==
    The({ IF ~open.ok THEN open ELSE
    The({ IF ~partition_key.ok THEN partition_key ELSE
    The({
    The({ IF ~close.ok THEN close
          ELSE IOk(close.rest,
                   CqlPrimaryKey(partition_key.val,
                                 IF IsSome(clustering_columns.val)
                                 THEN Unwrap(clustering_columns.val) ELSE <<>>))
        : close \in {tag(")", multispace0(clustering_columns.rest).rest)} })
        : clustering_columns \in
            {opt(parse_clustering_columns(multispace0(partition_key.rest).rest),
                 multispace0(partition_key.rest).rest)} })
        : partition_key \in {parse_partition_key(multispace0(open.rest).rest)} })
        : open \in {tag("(", input)} })

(* parse/table/options.rs *)

(* space1_between((CqlIdentifier::parse, alt((ASC, DESC)))) *)
parse_order(input) ==
    The({ IF ~name.ok THEN name ELSE
    The({ IF ~sp.ok THEN sp
          ELSE alt(map(tag_no_case("ASC", sp.rest), <<name.val, "Asc">>),
                   map(tag_no_case("DESC", sp.rest), <<name.val, "Desc">>))
        : sp \in {multispace1(name.rest)} })
        : name \in {CqlIdentifier_parse(input)} })

(* The CLUSTERING ORDER BY alternative of the loop *)
parse_clustering_order(input) ==
    The({ IF ~kw.ok THEN kw ELSE
    The({ IF ~open.ok THEN open ELSE
    The({ IF ~order.ok THEN order ELSE map(tag(")", order.rest), order.val)
        : order \in {separated_list1("order", open.rest)} })
        : open \in {tag("(", multispace0(kw.rest).rest)} })
        : kw \in {space1_tags(<<"CLUSTERING", "ORDER", "BY">>, input)} })

(* The loop of CqlTableOptions::parse, entered with compact_storage and
   clustering_order as set so far.  `i` is the input after multispace0. *)
RECURSIVE options_loop(_, _, _)
(* The entries of a later CLUSTERING ORDER BY added to the earlier ones *)
options_loop_merging(i, compact_storage, clustering_order) ==
    IF space1_tags(<<"COMPACT", "STORAGE">>, i).ok
    THEN IF opt_space1_keyword("AND", space1_tags(<<"COMPACT", "STORAGE">>, i).rest).val = None
         THEN IOk(space1_tags(<<"COMPACT", "STORAGE">>, i).rest,
                  CqlTableOptions(TRUE, clustering_order, <<>>))
         ELSE options_loop(
                multispace0(opt_space1_keyword("AND",
                   space1_tags(<<"COMPACT", "STORAGE">>, i).rest).rest).rest,
                TRUE, clustering_order)
    ELSE The({ IF ~order.ok
               THEN IOk(i, CqlTableOptions(compact_storage, clustering_order, <<>>))
               ELSE IF opt_space1_keyword("AND", order.rest).val = None
               THEN IOk(order.rest,
                        CqlTableOptions(compact_storage,
                                        clustering_order \o order.val, <<>>))
               ELSE options_loop(
                      multispace0(opt_space1_keyword("AND", order.rest).rest).rest,
                      compact_storage, clustering_order \o order.val)
             : order \in {parse_clustering_order(i)} })

options_loop(i, compact_storage, clustering_order) ==
    IF space1_tags(<<"COMPACT", "STORAGE">>, i).ok
    THEN IF opt_space1_keyword("AND", space1_tags(<<"COMPACT", "STORAGE">>, i).rest).val = None
         THEN IOk(space1_tags(<<"COMPACT", "STORAGE">>, i).rest,
                  CqlTableOptions(TRUE, clustering_order, <<>>))
         ELSE options_loop(
                multispace0(opt_space1_keyword("AND",
                   space1_tags(<<"COMPACT", "STORAGE">>, i).rest).rest).rest,
                TRUE, clustering_order)
    ELSE The({ IF ~order.ok
               THEN IOk(i, CqlTableOptions(compact_storage, clustering_order, <<>>))
               ELSE IF opt_space1_keyword("AND", order.rest).val = None
               THEN IOk(order.rest, CqlTableOptions(compact_storage, order.val, <<>>))
               ELSE options_loop(
                      multispace0(opt_space1_keyword("AND", order.rest).rest).rest,
                      compact_storage, order.val)
             : order \in {parse_clustering_order(i)} })

CqlTableOptions_parse(input) == options_loop(multispace0(input).rest, FALSE, <<>>)

(* parse/table.rs *)

(* space0_between((tag(","), space1_tags_no_case(["PRIMARY", "KEY"]),
   CqlPrimaryKey::parse)) *)
parse_table_primary_key(input) ==
    The({ IF ~comma.ok THEN comma ELSE
    The({ IF ~kw.ok THEN kw ELSE CqlPrimaryKey_parse(multispace0(kw.rest).rest)
        : kw \in {space1_tags_no_case(<<"PRIMARY", "KEY">>,
                                      multispace0(comma.rest).rest)} })
        : comma \in {tag(",", input)} })

(* space1_between((tag_no_case("WITH"), CqlTableOptions::parse)) *)
parse_with(input) ==
    The({ IF ~kw.ok THEN kw
          ELSE IF ~multispace1(kw.rest).ok THEN multispace1(kw.rest)
          ELSE CqlTableOptions_parse(multispace1(kw.rest).rest)
        : kw \in {tag_no_case("WITH", input)} })

(* space1_before(CqlQualifiedIdentifier::parse) *)
space1_before_name(input) ==
    IF multispace1(input).ok
    THEN CqlQualifiedIdentifier_parse(multispace1(input).rest)
    ELSE multispace1(input)

CqlTable_parse(input) ==
    The({ IF ~create.ok THEN create ELSE
    The({
    The({ IF ~name.ok THEN name ELSE
    The({ IF ~open.ok THEN open ELSE
    The({
    The({
    The({ IF ~close.ok THEN close ELSE
    The({ IOk(options.rest,
              CqlTable(IsSome(if_not_exists.val), name.val, columns.val,
                       primary_key.val, options.val))
        : options \in {opt(parse_with(multispace0(close.rest).rest),
                           multispace0(close.rest).rest)} })
        : close \in {tag(")", multispace0(primary_key.rest).rest)} })
        : primary_key \in {opt(parse_table_primary_key(columns.rest), columns.rest)} })
        : columns \in {separated_list0("CqlColumn", open.rest)} })
        : open \in {tag("(", multispace0(name.rest).rest)} })
        : name \in {space1_before_name(if_not_exists.rest)} })
        : if_not_exists \in
            {opt(space1_before_tags(<<"IF", "NOT", "EXISTS">>, create.rest),
                 create.rest)} })
        : create \in {space1_tags_no_case(<<"CREATE", "TABLE">>, input)} })

(* parse/user_defined_type.rs *)

parse_field(input) ==
    The({ IF ~name.ok THEN name ELSE
    The({ IF ~sp.ok THEN sp ELSE
    The({ IF ~ty.ok THEN ty
          ELSE IOk(multispace0(ty.rest).rest, <<name.val, ty.val>>)
        : ty \in {CqlType_parse(sp.rest)} })
        : sp \in {multispace1(name.rest)} })
        : name \in {CqlIdentifier_parse(multispace0(input).rest)} })

CqlUserDefinedType_parse(input) ==
    The({ IF ~create.ok THEN create ELSE
    The({
    The({ IF ~name.ok THEN name ELSE
    The({ IF ~open.ok THEN open ELSE
    The({
    The({ IF ~close.ok THEN close
          ELSE IOk(close.rest,
                   CqlUserDefinedType(IsSome(if_not_exists.val), name.val, fields.val))
        : close \in {tag(")", fields.rest)} })
        : fields \in {separated_list0("field", open.rest)} })
        : open \in {tag("(", multispace0(name.rest).rest)} })
        : name \in {space1_before_name(if_not_exists.rest)} })
        : if_not_exists \in
            {opt(space1_before_tags(<<"IF", "NOT", "EXISTS">>, create.rest),
                 create.rest)} })
        : create \in {space1_tags_no_case(<<"CREATE", "TYPE">>, input)} })

(* parse/statement.rs *)
CqlStatement_parse(input) ==
    alt(The({ IF ~u.ok THEN u ELSE IOk(u.rest, CreateUserDefinedType(u.val))
            : u \in {CqlUserDefinedType_parse(input)} }),
        The({ IF ~t.ok THEN t ELSE IOk(t.rest, CreateTable(t.val))
            : t \in {CqlTable_parse(input)} }))

(* The element parsers of the separated lists *)
Element(of, input) ==
    CASE of = "CqlType" -> space0_after(CqlType_parse(multispace0(input).rest))
      [] of = "CqlIdentifier" ->
           space0_after(CqlIdentifier_parse(multispace0(input).rest))
      [] of = "CqlColumn" -> space0_after(CqlColumn_parse(multispace0(input).rest))
      [] of = "order" -> space0_after(parse_order(multispace0(input).rest))
      [] of = "field" -> parse_field(input)

-----------------------------------------------------------------------------
(* Statements as text.  One call parses a CREATE TABLE and links the parsed
   table with no ambient keyspace and nothing before it; another parses two
   texts that differ in the case of their keywords only. *)

RECURSIVE LowerCase(_)
LowerCase(s) ==
    IF s = "" THEN "" ELSE to_ascii_lowercase(Char(s, 1)) \o LowerCase(Drop(s, 1))

(* A keyword in a letter case: as written in the grammar, all lower case,
   or with the first letter only in upper case *)
Cases == {"UPPER", "lower", "Mixed"}
Kw(k, c) ==
    IF c = "UPPER" THEN k
    ELSE IF c = "lower" THEN LowerCase(k)
    ELSE Take(k, 1) \o LowerCase(Drop(k, 1))

(* CREATE TABLE <t> (<c1> <ty1>, <c2> <ty2>, PRIMARY KEY (<pk>)) *)
TableText(p) ==
    "CREATE TABLE " \o p.table \o " (" \o p.columns[1] \o " " \o p.types[1]
      \o ", " \o p.columns[2] \o " " \o p.types[2]
      \o ", PRIMARY KEY (" \o p.columns[p.key] \o "))"

RoundTripTables == {"t", "t1", "tab", "my_table"}
RoundTripColumns == {<<"a", "b">>, <<"a1", "b1">>, <<"id", "name">>, <<"user_id", "x9">>}
RoundTripTypes == {<<"int", "text">>, <<"BIGINT", "Timestamp">>, <<"text", "INT">>}
RoundTrips ==
    [table : RoundTripTables, columns : RoundTripColumns, types : RoundTripTypes,
     key : {1, 2}]

(* The statements of the case comparison, each keyword written in case c *)
IfNotExistsText(ine, c) ==
    IF ine THEN " " \o Kw("IF", c) \o " " \o Kw("NOT", c) \o " " \o Kw("EXISTS", c)
    ELSE ""

OptionShapes == {"none", "compact", "order", "both"}
OptionsText(o, c) ==
    IF o = "none" THEN ""
    ELSE " " \o Kw("WITH", c) \o " " \o
         (IF o = "compact" THEN Kw("COMPACT", c) \o " " \o Kw("STORAGE", c)
          ELSE IF o = "order"
          THEN Kw("CLUSTERING", c) \o " " \o Kw("ORDER", c) \o " " \o Kw("BY", c)
                 \o " (b1 " \o Kw("DESC", c) \o ")"
          ELSE Kw("COMPACT", c) \o " " \o Kw("STORAGE", c) \o " " \o Kw("AND", c)
                 \o " " \o Kw("CLUSTERING", c) \o " " \o Kw("ORDER", c) \o " "
                 \o Kw("BY", c) \o " (a1 " \o Kw("ASC", c) \o ")")

CaseTable(ine, st, ty, o, c) ==
    Kw("CREATE", c) \o " " \o Kw("TABLE", c) \o IfNotExistsText(ine, c)
      \o " t1 (a1 " \o Kw("INT", c) \o (IF st THEN " " \o Kw("STATIC", c) ELSE "")
      \o ", b1 " \o ty \o ", " \o Kw("PRIMARY", c) \o " " \o Kw("KEY", c)
      \o " (a1))" \o OptionsText(o, c)

CaseType(ine, ty, c) ==
    Kw("CREATE", c) \o " " \o Kw("TYPE", c) \o IfNotExistsText(ine, c)
      \o " u1 (x1 " \o ty \o ")"

CaseShapes ==
    {<<"table", ine, st, i, o>> :
        ine \in BOOLEAN, st \in BOOLEAN, i \in 1..3, o \in OptionShapes}
    \cup {<<"type", ine, FALSE, i, "none">> : ine \in BOOLEAN, i \in 1..3}

TypeText(i, c) ==
    IF i = 1 THEN Kw("TEXT", c)
    ELSE IF i = 2
    THEN Kw("FROZEN", c) \o "<" \o Kw("LIST", c) \o "<" \o Kw("INT", c) \o ">>"
    ELSE Kw("MAP", c) \o "<" \o Kw("TIMEUUID", c) \o ", " \o Kw("SET", c) \o "<"
           \o Kw("TUPLE", c) \o "<" \o Kw("INT", c) \o ", " \o Kw("TEXT", c) \o ">>>"

CaseText(sh, c) ==
    IF sh[1] = "table"
    THEN CaseTable(sh[2], sh[3], TypeText(sh[4], c), sh[5], c)
    ELSE CaseType(sh[2], TypeText(sh[4], c), c)

InitStatement ==
    /\ Idle
    /\ res = None
    /\ \/ arg \in {<<"round_trip", TableText(p), p>> : p \in RoundTrips}
       \/ arg \in {<<"cases", CaseText(sh, "UPPER"), CaseText(sh, c)>> :
                     sh \in CaseShapes, c \in Cases \ {"UPPER"}}

(* CqlTable::parse, then CqlTable::reference_types on the parsed table *)
Linked_table(parsed) ==
    IF parsed.ok
    THEN [parsed |-> parsed,
          linked |-> Some(CqlTable_reference_types(parsed.val, None, <<>>, <<>>))]
    ELSE [parsed |-> parsed, linked |-> None]

RoundTrip ==
    /\ Called("round_trip")
    /\ res' = Some(Linked_table(CqlTable_parse(arg[2])))
    /\ UNCHANGED <<script, ambient, context, heap, pos, result, arg>>

ParseCases ==
    /\ Called("cases")
    /\ res' = Some(<<CqlStatement_parse(arg[2]), CqlStatement_parse(arg[3])>>)
    /\ UNCHANGED <<script, ambient, context, heap, pos, result, arg>>

NextStatement == RoundTrip \/ ParseCases

SpecStatement == InitStatement /\ [][NextStatement]_vars

(* The linked table has the two columns of p in order, the partition key is
   the cell of the column the PRIMARY KEY names, and nothing clusters. *)
TableAsWritten(p, cells, table) ==
    /\ table.name = Name(p.table)
    /\ Len(table.columns) = 2
    /\ \A i \in 1..2 :
         /\ cells[table.columns[i]].name = Unquoted(p.columns[i])
         /\ cells[table.columns[i]].cql_type.inner = <<>>
         /\ eq_ignore_ascii_case(cells[table.columns[i]].cql_type.tag, p.types[i])
    /\ IsSome(table.primary_key)
    /\ Unwrap(table.primary_key).partition_key = <<table.columns[p.key]>>
    /\ Unwrap(table.primary_key).clustering_columns = <<>>

RoundTripHolds(p, r) ==
    /\ r.parsed.ok
    /\ r.parsed.rest = ""
    /\ IsSome(r.linked)
    /\ Unwrap(r.linked).ok
    /\ TableAsWritten(p, Unwrap(Unwrap(r.linked).val).cells,
                      Unwrap(Unwrap(r.linked).val).value)

(* C7: a CREATE TABLE with valid unquoted names, scalar column types and a
   PRIMARY KEY naming one of its columns parses, and linking the parsed
   table with no ambient keyspace succeeds with the same columns in the same
   order, partition_key the named column alone and no clustering column. *)
C7_TableRoundTrip ==
    Returned("round_trip") => RoundTripHolds(arg[3], Unwrap(res))

(* C10: two statements that differ in the case of their keywords only parse
   to the same result with the same remaining input. *)
C10_KeywordCase ==
    Returned("cases") => Unwrap(res)[1] = Unwrap(res)[2]

-----------------------------------------------------------------------------
(* lib.rs: the script.  CqlStatements::parse takes statements while one
   parses, each followed by an optional `;`; parse_cql strips the white
   space around the whole. *)

(* CqlStatements::parse_statement *)
parse_statement(input) ==
    space0_after(CqlStatement_parse(multispace0(input).rest))

(* The loop of CqlStatements::parse, entered with the statements pushed so
   far. *)
RECURSIVE CqlStatements_loop(_, _)
CqlStatements_loop(input, statements) ==
    The({ IF IsNone(statement.val) THEN IOk(statement.rest, statements)
          ELSE IF IsNone(opt(tag(";", statement.rest), statement.rest).val)
          THEN IOk(statement.rest, Append(statements, Unwrap(statement.val)))
          ELSE CqlStatements_loop(tag(";", statement.rest).rest,
                                  Append(statements, Unwrap(statement.val)))
        : statement \in {opt(parse_statement(input), input)} })

CqlStatements_parse(input) == CqlStatements_loop(input, <<>>)

parse_cql(input) ==
    space0_after(CqlStatements_parse(multispace0(input).rest))

(* Statements of a script, each as its text and as the statement the text
   stands for. *)
ScriptStatements ==
    {<<"CREATE TYPE my_type (x1 int)",
       CreateUserDefinedType(CqlUserDefinedType(FALSE, Name("my_type"),
          <<<<Unquoted("x1"), INT>>>>))>>,
     <<"CREATE TABLE IF NOT EXISTS ks2.t1 (a1 int PRIMARY KEY, b1 text)",
       CreateTable(CqlTable(TRUE, NameIn(ks2, "t1"),
          <<CqlColumn(Unquoted("a1"), INT, FALSE, TRUE),
            CqlColumn(Unquoted("b1"), TEXT, FALSE, FALSE)>>, None, None))>>,
     <<"CREATE TABLE t1 (a1 int, b1 my_type,\n  PRIMARY KEY (a1))\n  WITH COMPACT STORAGE",
       CreateTable(CqlTable(FALSE, Name("t1"),
          <<CqlColumn(Unquoted("a1"), INT, FALSE, FALSE),
            CqlColumn(Unquoted("b1"), UserDefined(Unquoted("my_type")), FALSE, FALSE)>>,
          Some(CqlPrimaryKey(<<Unquoted("a1")>>, <<>>)),
          Some(CqlTableOptions(TRUE, <<>>, <<>>))))>>,
     <<"CREATE TYPE t (a int)",
       CreateUserDefinedType(CqlUserDefinedType(FALSE, Name("t"),
          <<<<Unquoted("a"), INT>>>>))>>}

(* The white space before the script, around each `;` and after the last
   statement, and what follows the last statement *)
Leading == {"", " ", "\n\t"}
Separators == {";", " ;\n", "\n;", ";\r\n  "}
Trailing == {"", ";", "\n", " ;\n\n", ";  "}

ScriptTexts ==
    {<<l \o s[1] \o t, <<s[2]>>>> :
        l \in Leading, s \in ScriptStatements, t \in Trailing}
    \cup {<<l \o s1[1] \o p \o s2[1] \o t, <<s1[2], s2[2]>>>> :
            l \in Leading, s1 \in ScriptStatements, p \in Separators,
            s2 \in ScriptStatements, t \in Trailing}

-----------------------------------------------------------------------------
(* lib.rs, CqlPrimaryKey::parse_partition_key: a bare name, or a list of
   names in parentheses that may be empty; each name is then looked up in
   the table's columns, given here by their names, with `.unwrap()`. *)

(* fn parse_partition_key_list *)
parse_partition_key_list(input) ==
    The({ IF ~open.ok THEN open ELSE
    The({ map(tag(")", names.rest), names.val)
        : names \in {separated_list0("CqlIdentifier", open.rest)} })
        : open \in {tag("(", input)} })

(* Option::unwrap on None *)
Panicked(i) == [ok |-> FALSE, rest |-> i, val |-> None, panic |-> TRUE]

(* The first column whose name equals each name, or the panic of unwrap *)
UnwrapColumns(names, columns) ==
    IF ~names.ok THEN names
    ELSE IF \E i \in 1..Len(names.val) :
              \A c \in 1..Len(columns) : ~CqlIdentifierEq(columns[c], names.val[i])
    THEN Panicked(names.rest)
    ELSE IOk(names.rest,
             [i \in 1..Len(names.val) |->
                columns[Min({c \in 1..Len(columns) :
                               CqlIdentifierEq(columns[c], names.val[i])})]])

CqlPrimaryKey_parse_partition_key(input, columns) ==
    UnwrapColumns(
      alt(The({ IF ~name.ok THEN name ELSE IOk(name.rest, <<name.val>>)
              : name \in {CqlIdentifier_parse(input)} }),
          parse_partition_key_list(input)),
      columns)

(* CREATE statements as text, some of them with nothing between the
   parentheses *)
CreateHeads == {"CREATE TABLE", "CREATE TYPE", "create table if not exists"}
CreateNames == {"ks1.t1", "t_1", "ks.name"}
CreateLists ==
    {"()", "( )", "(\n)", "(a1 int)", "( a1 int , b1 frozen<my_type> )",
     "(, PRIMARY KEY (a1))", "(a1 int, PRIMARY KEY (a1))", "(,)", "(a1)"}
CreateTexts ==
    {h \o " " \o n \o sp \o l :
        h \in CreateHeads, n \in CreateNames, sp \in {"", " "}, l \in CreateLists}

(* Names of types that begin with the letters of a type keyword, and the
   text that may follow a type *)
KeywordNames ==
    {"interval_t", "text_data", "date_range", "listing_t", "Interval_T",
     "TEXT_DATA", "Date_Range", "settings_1", "mapping_1", "frozen_1",
     "tuple_x1", "uuid_gen", "timeuuid_1", "time_1", "counter_1", "blob_2",
     "ascii_art", "floating_1", "inet_addr", "varchar_1", "doubles_1"}
TypeTails == {"", " ", ">", ", int>"}

(* Partition keys as text, some of them with no name *)
PartitionKeyTexts ==
    {"()", "( )", "(())", "((), b1)", "(a1)", "((a1))", "a1", "(a1, b1)",
     "((a1, b1), c1)", "(z1)", "(, a1)", "(a1,)", "", ")", "(a1"}
KeyTails == {"", ")", ", b1)", " "}

-----------------------------------------------------------------------------
(* Primary-key clauses as text: a partition key, bare or in parentheses, and
   clustering columns, with the white space w around every name, comma and
   parenthesis. *)

KeyNames == {"user_id", "c1", "p"}
KeySpaces == {"", " ", "\n  "}

RECURSIVE Joined(_, _)
Joined(names, w) ==
    IF Len(names) = 1 THEN w \o names[1] \o w
    ELSE w \o names[1] \o w \o "," \o Joined(Tail(names), w)

NamesUpTo(lo, hi) == UNION {[1..n -> KeyNames] : n \in lo..hi}

PartitionText(bare, names, w) ==
    IF bare THEN w \o names[1] \o w ELSE w \o "(" \o Joined(names, w) \o ")" \o w

KeyClauseText(bare, pk, cc, w) ==
    w \o "(" \o PartitionText(bare, pk, w)
      \o (IF cc = <<>> THEN "" ELSE "," \o Joined(cc, w)) \o ")"

IdentifiersOf(names) == [i \in 1..Len(names) |-> Unquoted(names[i])]

KeyClauses ==
    {<<KeyClauseText(bare, pk, cc, w), IdentifiersOf(pk), IdentifiersOf(cc)>> :
        bare \in {FALSE}, pk \in NamesUpTo(1, 2), cc \in NamesUpTo(0, 2),
        w \in KeySpaces}
    \cup
    {<<KeyClauseText(bare, pk, cc, w), IdentifiersOf(pk), IdentifiersOf(cc)>> :
        bare \in {TRUE}, pk \in NamesUpTo(1, 1), cc \in NamesUpTo(0, 2),
        w \in KeySpaces}

-----------------------------------------------------------------------------
(* WITH clauses as text: up to three options chained with AND, each COMPACT
   STORAGE or a CLUSTERING ORDER BY of one of three lists.  An option is
   <<>> for COMPACT STORAGE, else the list of <<column, order>>. *)

ClusteringOrders ==
    {<<<<"a1", "Asc">>>>, <<<<"b1", "Desc">>, <<"a1", "Asc">>>>, <<<<"b1", "Asc">>>>}
WithOptions == {<<>>} \cup ClusteringOrders
WithClauses == UNION {[1..n -> WithOptions] : n \in 1..3}

RECURSIVE OrderText(_)
OrderText(o) ==
    o[1][1] \o " " \o (IF o[1][2] = "Asc" THEN "ASC" ELSE "DESC")
      \o (IF Len(o) = 1 THEN "" ELSE ", " \o OrderText(Tail(o)))

OptionText(o) ==
    IF o = <<>> THEN "COMPACT STORAGE"
    ELSE "CLUSTERING ORDER BY (" \o OrderText(o) \o ")"

RECURSIVE WithText(_, _)
WithText(c, w) ==
    OptionText(c[1]) \o (IF Len(c) = 1 THEN "" ELSE w \o WithText(Tail(c), w))

-----------------------------------------------------------------------------
(* The grammar, one call at a time: a call of CqlTable::parse, of
   CqlType::parse or of CqlPrimaryKey::parse on a text of a bounded set. *)

(* Table options the parser has no alternative for *)
FreeFormOptions ==
    {"comment = 'x'", "gc_grace_seconds = 0", "caching = {'keys': 'ALL'}"}
OptionTableHead == "CREATE TABLE t1 (a1 int, b1 text, PRIMARY KEY (a1)) WITH "
FreeFormClauses ==
    {o : o \in FreeFormOptions}
    \cup {"COMPACT STORAGE AND " \o o : o \in FreeFormOptions}
    \cup {o \o " AND COMPACT STORAGE" : o \in FreeFormOptions}
    \cup {"CLUSTERING ORDER BY (b1 DESC) AND " \o o : o \in FreeFormOptions}
    \cup {o \o " AND " \o p : o, p \in FreeFormOptions}
OptionTables == {OptionTableHead \o c : c \in FreeFormClauses}

InitGrammar ==
    /\ Idle
    /\ res = None
    /\ \/ arg \in {<<"parse_table", s>> : s \in OptionTables}
       \/ arg \in {<<f, Kw(ScalarTags[i], c), ScalarTags[i]>> :
                     f \in {"parse_type", "parse_native_type"},
                     i \in 1..Len(ScalarTags), c \in Cases}
       \/ arg \in {<<"parse_cql", s[1], s[2]>> : s \in ScriptTexts}
       \/ arg \in {<<"parse_statement", s>> : s \in CreateTexts}
       \/ arg \in {<<"parse_type_name", n \o t, n, t>> :
                     n \in KeywordNames, t \in TypeTails}
       \/ arg \in {<<f, k \o t>> :
                     f \in {"parse_key_clause", "parse_partition_key"},
                     k \in PartitionKeyTexts, t \in KeyTails}
       \/ arg \in {<<"parse_options", WithText(c, w), c>> :
                     c \in WithClauses, w \in {" AND ", "\nAND\n  "}}
       \/ arg \in {<<"parse_primary_key", ", PRIMARY KEY" \o k[1], k[2], k[3]>> :
                     k \in KeyClauses}

ParseTable ==
    /\ Called("parse_table")
    /\ res' = Some(CqlTable_parse(arg[2]))
    /\ UNCHANGED <<script, ambient, context, heap, pos, result, arg>>

ParseType ==
    /\ Called("parse_type")
    /\ res' = Some(CqlType_parse(arg[2]))
    /\ UNCHANGED <<script, ambient, context, heap, pos, result, arg>>

ParseNativeType ==
    /\ Called("parse_native_type")
    /\ res' = Some(CqlNativeType_parse(arg[2]))
    /\ UNCHANGED <<script, ambient, context, heap, pos, result, arg>>

ParseCql ==
    /\ Called("parse_cql")
    /\ res' = Some(parse_cql(arg[2]))
    /\ UNCHANGED <<script, ambient, context, heap, pos, result, arg>>

ParsePrimaryKey ==
    /\ Called("parse_primary_key")
    /\ res' = Some(parse_table_primary_key(arg[2]))
    /\ UNCHANGED <<script, ambient, context, heap, pos, result, arg>>

ParseTableOptions ==
    /\ Called("parse_options")
    /\ res' = Some(CqlTableOptions_parse(arg[2]))
    /\ UNCHANGED <<script, ambient, context, heap, pos, result, arg>>

ParseStatement ==
    /\ Called("parse_statement")
    /\ res' = Some(CqlStatement_parse(arg[2]))
    /\ UNCHANGED <<script, ambient, context, heap, pos, result, arg>>

ParseTypeName ==
    /\ Called("parse_type_name")
    /\ res' = Some(CqlType_parse(arg[2]))
    /\ UNCHANGED <<script, ambient, context, heap, pos, result, arg>>

ParseKeyClause ==
    /\ Called("parse_key_clause")
    /\ res' = Some(CqlPrimaryKey_parse(arg[2]))
    /\ UNCHANGED <<script, ambient, context, heap, pos, result, arg>>

(* The table of the call has the columns a1, b1 and c1 *)
ParsePartitionKey ==
    /\ Called("parse_partition_key")
    /\ res' = Some(CqlPrimaryKey_parse_partition_key(arg[2],
                     <<Unquoted("a1"), Unquoted("b1"), Unquoted("c1")>>))
    /\ UNCHANGED <<script, ambient, context, heap, pos, result, arg>>

NextGrammar ==
    \/ ParseTable \/ ParseType \/ ParseNativeType \/ ParseCql \/ ParsePrimaryKey
    \/ ParseTableOptions \/ ParseKeyClause \/ ParsePartitionKey
    \/ ParseStatement \/ ParseTypeName

SpecGrammar == InitGrammar /\ [][NextGrammar]_vars

(* C11: parsing a CREATE TABLE whose WITH clause holds a free-form
   (key = value) option returns an error: no table comes back with the
   option dropped or left out. *)
C11_FreeFormOptionFails ==
    Returned("parse_table") => ~Unwrap(res).ok
-----------------------------------------------------------------------------
(* The statement loop as a function of the script: the statements linked so
   far and the cells they live in, or the first error. *)
RECURSIVE LinkFrom(_, _, _, _)
LinkFrom(scr, ks, ctx, hp) ==
    IF scr = <<>> THEN Ok([context |-> ctx, cells |-> hp])
    ELSE The({ IF ~r.ok THEN r
               ELSE LinkFrom(Tail(scr), ks,
                             Append(ctx, Unwrap(r.val).linked),
                             Unwrap(r.val).cells)
             : r \in {CqlStatement_reference_types(Head(scr), ks, ctx, hp)} })

LinkScript(scr, ks) == LinkFrom(InOrder(scr), ks, <<>>, <<>>)

-----------------------------------------------------------------------------
(* CqlType::reference_types, one call at a time, on a type tree of depth at
   most two (and FROZEN<MAP<TEXT, LIST<_>>>) over two scalars and two UDT references, in every keyspace
   and in the contexts left by a few scripts. *)

TypeLeaves == {INT, TEXT, UserDefined(Unquoted("my_type")),
               UserDefined(Quoted("nope"))}
TypesOver(S) ==
    {FROZEN(t) : t \in S} \cup {SET(t) : t \in S} \cup {LIST(t) : t \in S}
    \cup {MAP(k, v) : k \in {TEXT, INT}, v \in S}
    \cup {MAP(k, v) : k \in S, v \in {TEXT}}
    \cup {TUPLE(<<t>>) : t \in S}
    \cup {TUPLE(<<t, u>>) : t \in S, u \in {INT}}
    \cup {TUPLE(<<k, t, u>>) : k \in {TEXT}, t \in S, u \in {INT}}
TypeTrees ==
    TypeLeaves \cup TypesOver(TypeLeaves) \cup TypesOver(TypesOver(TypeLeaves))
    \cup {FROZEN(MAP(TEXT, LIST(t))) : t \in TypeLeaves}

ContextScripts ==
    {<<>>, <<MyType>>,
     <<MyType,
       CreateTable(CqlTable(FALSE, Name("t1"),
         <<CqlColumn(Unquoted("a1"), UserDefined(Unquoted("my_type")), FALSE, FALSE)>>,
         None, None))>>}
TypeContexts == {Unwrap(LinkScript(s, None).val) : s \in ContextScripts}

InitType ==
    /\ Idle
    /\ res = None
    /\ arg \in {<<"reference_types", t, ks, c>> :
                  t \in TypeTrees, ks \in Ambients, c \in TypeContexts}

ReferenceTypes ==
    /\ Called("reference_types")
    /\ res' = Some(CqlType_reference_types(arg[2], arg[3], arg[4].context, arg[4].cells))
    /\ UNCHANGED <<script, ambient, context, heap, pos, result, arg>>

NextType == ReferenceTypes

SpecType == InitType /\ [][NextType]_vars

(* A type tree without a UDT reference at any depth *)
RECURSIVE Builtin(_)
Builtin(t) ==
    /\ t.tag # "UserDefined"
    /\ \A i \in 1..Len(t.inner) : Builtin(t.inner[i])

(* C12: for a type built from scalars, FROZEN, MAP, SET, LIST and TUPLE only,
   reference_types succeeds in every keyspace and every context and returns
   the tree it was given. *)
C12_BuiltinTypesUnchanged ==
    (Returned("reference_types") /\ Builtin(arg[2]))
        => Unwrap(res) = Ok(arg[2])

(* Frozen(Map(Text, List(Int))) has been linked in the empty context *)
C12_Witness ==
    /\ Returned("reference_types")
    /\ arg[2] = FROZEN(MAP(TEXT, LIST(INT)))
    /\ arg[4].context = <<>>
    /\ Unwrap(res).ok

(* A tuple of three has been linked in a context that holds statements *)
C12_WitnessTuple ==
    /\ Returned("reference_types")
    /\ arg[2].tag = "TUPLE" /\ Len(arg[2].inner) = 3 /\ Builtin(arg[2])
    /\ Len(arg[4].context) = 2
    /\ IsSome(arg[3])
    /\ Unwrap(res).ok
-----------------------------------------------------------------------------
(* The linked statements read back as a script: every Rc becomes the name
   of the entity in its cell. *)
RECURSIVE ReadBackType(_, _)
ReadBackType(t, hp) ==
    IF t.tag = "UserDefined" THEN UserDefined(hp[Unwrap(t.udt)].name.name)
    ELSE [tag |-> t.tag,
          inner |-> [i \in 1..Len(t.inner) |-> ReadBackType(t.inner[i], hp)],
          udt |-> None]

ReadBackColumn(c, hp) ==
    CqlColumn(c.name, ReadBackType(c.cql_type, hp), c.is_static, c.is_primary_key)

ColumnNames(rcs, hp) == [i \in 1..Len(rcs) |-> hp[rcs[i]].name]

ReadBackPrimaryKey(pk, hp) ==
    IF IsSome(pk)
    THEN Some(CqlPrimaryKey(ColumnNames(Unwrap(pk).partition_key, hp),
                            ColumnNames(Unwrap(pk).clustering_columns, hp)))
    ELSE None

ReadBackOptions(os, hp) ==
    IF IsSome(os)
    THEN Some(CqlTableOptions(
           Unwrap(os).compact_storage,
           [i \in 1..Len(Unwrap(os).clustering_order) |->
              <<hp[Unwrap(os).clustering_order[i][1]].name,
                Unwrap(os).clustering_order[i][2]>>],
           Unwrap(os).options))
    ELSE None

ReadBackTable(t, hp) ==
    CqlTable(t.if_not_exists, t.name,
             [i \in 1..Len(t.columns) |-> ReadBackColumn(hp[t.columns[i]], hp)],
             ReadBackPrimaryKey(t.primary_key, hp),
             ReadBackOptions(t.options, hp))

ReadBackUdt(u, hp) ==
    CqlUserDefinedType(u.if_not_exists, u.name,
        [i \in 1..Len(u.fields) |->
           <<u.fields[i][1], ReadBackType(u.fields[i][2], hp)>>])

ReadBack(ctx, hp) ==
    [i \in 1..Len(ctx) |->
       IF ctx[i].kind = "CreateTable"
       THEN CreateTable(ReadBackTable(hp[ctx[i].rc], hp))
       ELSE CreateUserDefinedType(ReadBackUdt(hp[ctx[i].rc], hp))]

(* Linking the read-back script gives the same statements in the same cells *)
Relinked ==
    LinkScript(ReadBack(Resolved, heap), ambient)
        = Ok([context |-> Resolved, cells |-> heap])

(* A reference of statement k is bound to a CREATE TYPE that comes after
   another CREATE TYPE whose name equals the bound one's name in the
   keyspace of statement k. *)
UdtHomonym(k) ==
    \E u \in StmtRefs(script[k]) :
        /\ DefinedBefore(k, u) # {}
        /\ \E j \in 1..(Min(DefinedBefore(k, u)) - 1) :
             Defines(script[j], script[Min(DefinedBefore(k, u))].body.name.name,
                     StmtKeyspace(script[k]))

(* The columns of table t that name n equals *)
ColumnsNamed(t, n) ==
    {i \in 1..Len(t.columns) : CqlIdentifierEq(t.columns[i].name, n)}

(* A key or order name of table k is bound to a column that comes after
   another column of the table whose name equals the bound one's name. *)
ColumnHomonym(k) ==
    /\ script[k].kind = "CreateTable"
    /\ \E n \in PkNames(script[k].body) \cup OrderNames(script[k].body) :
         /\ ColumnsNamed(script[k].body, n) # {}
         /\ \E j \in 1..(Min(ColumnsNamed(script[k].body, n)) - 1) :
              CqlIdentifierEq(
                script[k].body.columns[j].name,
                script[k].body.columns[Min(ColumnsNamed(script[k].body, n))].name)

Homonyms == \E k \in 1..Len(script) : UdtHomonym(k) \/ ColumnHomonym(k)

(* C13, as claimed: resolving the output of a successful resolution again,
   every handle read back as the name of its entity, in the same ambient
   keyspace, succeeds and gives a list equal to the first output. *)
C13_Idempotent == Succeeded => Relinked

(* C13, amended: the same, for scripts in which no reference is bound to an
   entity that follows another definition (an earlier CREATE TYPE, or an
   earlier column of the same table) with a name equal to the bound
   entity's name. *)
C13_IdempotentWithoutHomonyms == (Succeeded /\ ~Homonyms) => Relinked

(* A script of three statements with a bound UDT reference in the last has
   been resolved, and no homonym is involved *)
C13_Witness ==
    /\ Succeeded
    /\ ~Homonyms
    /\ Len(script) = 3
    /\ script[3].kind = "CreateTable"
    /\ StmtRefs(script[3]) # {}
    /\ Relinked

(* A keyed table whose key and order names are bound has been resolved *)
C13_WitnessKeys ==
    /\ Succeeded
    /\ ~Homonyms
    /\ \E k \in 1..Len(script) :
         /\ script[k].kind = "CreateTable"
         /\ PkNames(script[k].body) # {}
         /\ OrderNames(script[k].body) # {}

(* The keyword alone parses to the scalar of its name, nothing left *)
ScalarParsed == Unwrap(res) = IOk("", Scalar(arg[3]))

(* C14: each of the 21 scalar keywords, given alone, parses to the scalar
   kind of the same name with empty remaining input; no keyword is taken
   for a shorter keyword that is its prefix. *)
C14_ScalarKeywords ==
    (Returned("parse_type") \/ Returned("parse_native_type")) => ScalarParsed

(* C15: parse_cql on n >= 1 statements separated by `;`, with white space
   before, between and after them and with or without a `;` after the last,
   returns those n statements in the order of the text, and no remaining
   text. *)
C15_ScriptParsing ==
    Returned("parse_cql") => Unwrap(res) = IOk("", arg[3])
-----------------------------------------------------------------------------
(* The Rcs a resolved table holds for its key and its clustering order, next
   to the names the parsed table wrote for them. *)

RcsOf(seq) == {seq[i] : i \in 1..Len(seq)}

(* `handles` are Rcs of the columns `cols`, one per written name, each the
   Rc of a column of that name *)
HandlesOf(handles, names, cols) ==
    /\ Len(handles) = Len(names)
    /\ \A i \in 1..Len(names) :
         /\ handles[i] \in RcsOf(cols)
         /\ CqlIdentifierEq(heap[handles[i]].name, names[i])

KeyHandles(raw, cell) ==
    /\ IsSome(cell.primary_key) = IsSome(raw.primary_key)
    /\ IsSome(raw.primary_key) =>
         /\ HandlesOf(Unwrap(cell.primary_key).partition_key,
                      Unwrap(raw.primary_key).partition_key, cell.columns)
         /\ HandlesOf(Unwrap(cell.primary_key).clustering_columns,
                      Unwrap(raw.primary_key).clustering_columns, cell.columns)

OrderHandles(raw, cell) ==
    /\ IsSome(cell.options) = IsSome(raw.options)
    /\ IsSome(raw.options) =>
         HandlesOf(
           [i \in 1..Len(Unwrap(cell.options).clustering_order) |->
              Unwrap(cell.options).clustering_order[i][1]],
           [i \in 1..Len(Unwrap(raw.options).clustering_order) |->
              Unwrap(raw.options).clustering_order[i][1]],
           cell.columns)

ResolvedTables == {k \in 1..Len(Resolved) : Resolved[k].kind = "CreateTable"}

(* C16: in every resolved table the Rcs of the partition key, of the
   clustering columns and of the clustering order are Rcs of the table's own
   columns list, one per written name and in the written order, each the Rc
   of a column whose name equals the written name; no Rc of a column is held
   by two tables. *)
C16_KeyHandlesAreOwnColumns ==
    /\ \A k \in ResolvedTables :
         /\ KeyHandles(script[k].body, heap[Resolved[k].rc])
         /\ OrderHandles(script[k].body, heap[Resolved[k].rc])
    /\ \A j, k \in ResolvedTables :
         j # k => RcsOf(heap[Resolved[j].rc].columns)
                    \cap RcsOf(heap[Resolved[k].rc].columns) = {}

C16_Witness ==
    /\ Succeeded
    /\ Len(script) = 2
    /\ ResolvedTables = {1, 2}
    /\ script[2].body.primary_key =
         Some(CqlPrimaryKey(<<Unquoted("b1"), Quoted("a1")>>, <<>>))
    /\ Unwrap(heap[Resolved[2].rc].primary_key).partition_key =
         <<heap[Resolved[2].rc].columns[2], heap[Resolved[2].rc].columns[1]>>
    /\ IsSome(heap[Resolved[2].rc].options)
    /\ Unwrap(heap[Resolved[2].rc].options).clustering_order[1][1] =
         heap[Resolved[2].rc].columns[2]
    /\ IsSome(heap[Resolved[1].rc].primary_key)

(* C17: the PRIMARY KEY clause `(p)` parses to partition_key = [p] and no
   clustering columns, `(p, c1, ..., cn)` to partition_key = [p] and
   clustering_columns = [c1, ..., cn], `((p1, ..., pm), c1, ..., cn)` to
   partition_key = [p1, ..., pm] and clustering_columns = [c1, ..., cn],
   in the written order, whatever the white space around the names, the
   commas and the parentheses. *)
C17_PrimaryKeyClause ==
    Returned("parse_primary_key") =>
        Unwrap(res) = IOk("", CqlPrimaryKey(arg[3], arg[4]))
-----------------------------------------------------------------------------
(* The UDT Rcs a resolved statement holds, in its column types or its field
   types, at any depth *)
Handles(k) ==
    IF Resolved[k].kind = "CreateTable"
    THEN UNION {Refs(heap[heap[Resolved[k].rc].columns[i]].cql_type) :
                  i \in 1..Len(heap[Resolved[k].rc].columns)}
    ELSE UNION {Refs(heap[Resolved[k].rc].fields[i][2]) :
                  i \in 1..Len(heap[Resolved[k].rc].fields)}

(* The Rcs of the CREATE TYPE statements resolved before statement k *)
TypesBefore(k) ==
    {Resolved[j].rc : j \in {i \in 1..(k - 1) : Resolved[i].kind = "CreateUserDefinedType"}}

(* C18: whatever number of statements has been resolved, every UDT Rc that
   resolved statement k holds in a column type or a field type, at any depth,
   is the Rc of a CREATE TYPE statement resolved before k; the order of the
   resolved list is thus a topological order of the Rcs, and no resolved UDT
   holds its own Rc. *)
C18_Visibility ==
    \A k \in 1..Len(Resolved) :
        /\ Handles(k) \subseteq TypesBefore(k)
        /\ Resolved[k].rc \notin Handles(k)

C18_Witness ==
    /\ Linking
    /\ pos = 3
    /\ Len(Resolved) = 3
    /\ Resolved[2].kind = "CreateUserDefinedType"
    /\ Handles(2) = {Resolved[1].rc}
    /\ Resolved[3].kind = "CreateTable"
    /\ Handles(3) = {Resolved[2].rc}
    /\ heap[heap[Resolved[3].rc].columns[2]].cql_type.tag = "MAP"
-----------------------------------------------------------------------------
(* The references of CREATE TYPE statement k to the type's own name: those
   that statement k itself would define *)
SelfRefs(k) ==
    IF script[k].kind = "CreateUserDefinedType"
    THEN {u \in StmtRefs(script[k]) : Defines(script[k], u, StmtKeyspace(script[k]))}
    ELSE {}

(* C19: a CREATE TYPE statement with a field type that refers to the type's
   own name, when no earlier statement of the script defines a UDT of that
   contextualized name, fails, and the error is that contextualized name:
   the type is not in the context its own fields are looked up in. *)
C19_SelfReferenceFails ==
    \A k \in 1..Len(script) : \A u \in SelfRefs(k) :
        (pos >= k /\ DefinedBefore(k, u) = {}) =>
            /\ Failed
            /\ pos = k
            /\ Error = NameOf(u, StmtKeyspace(script[k]))

C19_Witness ==
    /\ Failed
    /\ pos = 2
    /\ script[1].kind = "CreateUserDefinedType"
    /\ script[2] = CreateUserDefinedType(CqlUserDefinedType(FALSE, Name("my_type"),
                     <<<<Unquoted("x1"), FROZEN(UserDefined(Unquoted("my_type")))>>>>))
    /\ SelfRefs(2) = {Unquoted("my_type")}
    /\ ambient = Some(ks1)
    /\ Error = CqlQualifiedIdentifier(Some(ks1), Unquoted("my_type"))
-----------------------------------------------------------------------------
(* Resolved statement k stands for statement k of the script: same kind,
   same name *)
StandsFor(ctx, hp, k) ==
    /\ ctx[k].kind = script[k].kind
    /\ hp[ctx[k].rc].name = script[k].body.name

(* One statement resolved: the next of the script, appended to the
   statements resolved so far, which are left as they were, cells included *)
StepResolved ==
    /\ result' = None
    /\ pos' = pos + 1
    /\ context' = Append(context, context'[pos'])
    /\ SubSeq(heap', 1, Len(heap)) = heap
    /\ StandsFor(context', heap', pos')

(* The statement after the resolved ones failed: the pass is over *)
StepFailed ==
    /\ pos < Len(script)
    /\ pos' = pos + 1
    /\ IsSome(result') /\ ~Unwrap(result').ok

(* Every statement resolved: the resolved statements are returned as they
   are *)
StepDone ==
    /\ pos = Len(script)
    /\ pos' = pos
    /\ result' = Some(Ok(context))
    /\ heap' = heap

(* C20: the statements are resolved in script order, each successful one
   adding exactly one resolved statement after those resolved before, which
   are not changed; a successful pass returns one resolved statement per
   statement of the script, in the same order and of the same kind; after
   Done or Failed no step is taken. *)
C20_Progression ==
    /\ [](Linking => (Len(context) = pos /\ pos <= Len(script)))
    /\ [](Succeeded =>
            /\ Len(Resolved) = Len(script)
            /\ \A k \in 1..Len(script) : StandsFor(Resolved, heap, k))
    /\ [][Linking /\ (StepResolved \/ StepFailed \/ StepDone)]_vars

C20_Witness ==
    /\ Succeeded
    /\ Len(script) = 3
    /\ pos = 3
    /\ script[1].kind = "CreateUserDefinedType"
    /\ script[2].kind = "CreateTable"
    /\ script[3].kind = "CreateUserDefinedType"
    /\ Resolved[2].kind = "CreateTable"
    /\ heap[Resolved[3].rc].name = NameIn(ks2, "my_type")
    /\ heap[Resolved[1].rc].name = Name("node_t")
-----------------------------------------------------------------------------
(* The references of a statement in the order resolution meets them, each
   as <<kind, name>> with kind "type" for a UDT reference and "column" for a
   name of the primary key or of the clustering order *)

RECURSIVE Flatten(_)
Flatten(seqs) == IF seqs = <<>> THEN <<>> ELSE Head(seqs) \o Flatten(Tail(seqs))

RECURSIVE TypeRefs(_)
TypeRefs(t) ==
    IF t.tag = "UserDefined" THEN <<<<"type", Unwrap(t.udt)>>>>
    ELSE Flatten([i \in 1..Len(t.inner) |-> TypeRefs(t.inner[i])])

ColumnRefs(names) == [i \in 1..Len(names) |-> <<"column", names[i]>>]

TableRefs(t) ==
    Flatten([i \in 1..Len(t.columns) |-> TypeRefs(t.columns[i].cql_type)])
      \o (IF IsSome(t.primary_key)
          THEN ColumnRefs(Unwrap(t.primary_key).partition_key)
                 \o ColumnRefs(Unwrap(t.primary_key).clustering_columns)
          ELSE <<>>)
      \o (IF IsSome(t.options)
          THEN ColumnRefs([i \in 1..Len(Unwrap(t.options).clustering_order) |->
                             Unwrap(t.options).clustering_order[i][1]])
          ELSE <<>>)

RefsInOrder(k) ==
    IF script[k].kind = "CreateTable" THEN TableRefs(script[k].body)
    ELSE Flatten([i \in 1..Len(script[k].body.fields) |->
                    TypeRefs(script[k].body.fields[i][2])])

Unresolvable(k, r) ==
    IF r[1] = "type" THEN DefinedBefore(k, r[2]) = {}
    ELSE ~IsColumn(script[k].body, r[2], StmtKeyspace(script[k]))

UnresolvableAt(k) ==
    {i \in 1..Len(RefsInOrder(k)) : Unresolvable(k, RefsInOrder(k)[i])}

FirstUnresolvable(k) == RefsInOrder(k)[Min(UnresolvableAt(k))][2]

(* C21: the error of a script is the unresolvable reference met first: that
   of the earliest statement that has one and, within it, the first in the
   order column types (components left to right), partition key, clustering
   columns, clustering order for a table, field types in field order for a
   UDT. *)
C21_FirstError ==
    \A k \in 1..Len(script) :
        (/\ pos >= k
         /\ UnresolvableAt(k) # {}
         /\ \A j \in 1..(k - 1) : UnresolvableAt(j) = {}) =>
            /\ Failed
            /\ pos = k
            /\ Error = NameOf(FirstUnresolvable(k), StmtKeyspace(script[k]))

(* A table with an unresolvable second component of its first column type,
   second column, partition key, clustering column and clustering order *)
C21_Witness ==
    /\ Failed
    /\ pos = 2
    /\ script[1] = MyType
    /\ script[2] \in ManyRefTables
    /\ Cardinality(UnresolvableAt(2)) = 6
    /\ Error = Name("ua1")

C21_WitnessKey ==
    /\ Failed
    /\ pos = 1
    /\ script[1] \in ManyRefTables
    /\ Cardinality(UnresolvableAt(1)) = 3
    /\ Error = Name("z1")
    /\ ambient = None

(* The clustering orders of a WITH clause, in the order written; the list
   of the last one as the parser holds it *)
OrdersOf(c) == SelectSeq(c, LAMBDA o : o # <<>>)
LastOrder(c) ==
    IF OrdersOf(c) = <<>> THEN <<>>
    ELSE [i \in 1..Len(OrdersOf(c)[Len(OrdersOf(c))]) |->
            <<Unquoted(OrdersOf(c)[Len(OrdersOf(c))][i][1]),
              OrdersOf(c)[Len(OrdersOf(c))][i][2]>>]

(* C22: the clustering_order of a parsed WITH clause is the list of its last
   CLUSTERING ORDER BY, with no entry of an earlier one, wherever COMPACT
   STORAGE stands; without a CLUSTERING ORDER BY it is empty. *)
C22_LastClusteringOrderWins ==
    Returned("parse_options") =>
        /\ Unwrap(res).ok
        /\ Unwrap(res).rest = ""
        /\ Unwrap(res).val.clustering_order = LastOrder(arg[3])

C22_Witness ==
    /\ Returned("parse_options")
    /\ Len(OrdersOf(arg[3])) = 2
    /\ arg[3][2] = <<>>
    /\ Len(arg[3][1]) = 2
    /\ Unwrap(res).val.clustering_order = <<<<Unquoted("b1"), "Asc">>>>
    /\ Unwrap(res).val.compact_storage

C22_WitnessNone ==
    /\ Returned("parse_options")
    /\ OrdersOf(arg[3]) = <<>>
    /\ Unwrap(res).val.clustering_order = <<>>
-----------------------------------------------------------------------------
(* The loops of the parsers, one iteration at a time.  `res` holds the
   loop's `input` variable before the next iteration, whether the loop has
   been left (`done`), whether it was left with a value (`ok`), and the
   number of turns taken. *)

(* No loop is followed for more turns than this *)
MaxTurns == 80

Iterating(i) == [input |-> i, done |-> FALSE, ok |-> TRUE]
Left(i, ok) == [input |-> i, done |-> TRUE, ok |-> ok]

(* The loop goes on from the text before the closing quote *)
quoted_iteration_unconsumed(input) ==
    The({ IF ~s.ok THEN Left(input, FALSE)
          ELSE IF ~starts_with(tag("\"", s.rest).rest, "\"")
          THEN Left(tag("\"", s.rest).rest, TRUE)
          ELSE Iterating(s.rest)
        : s \in {take_until("\"", input)} })

(* parse_quoted: one turn of the loop *)
quoted_iteration(input) ==
    The({ IF ~s.ok THEN Left(input, FALSE)
          ELSE IF ~starts_with(tag("\"", s.rest).rest, "\"")
          THEN Left(tag("\"", s.rest).rest, TRUE)
          ELSE Iterating(tag("\"", s.rest).rest)
        : s \in {take_until("\"", input)} })

(* The option of one turn of CqlTableOptions::parse: opt(alt((COMPACT
   STORAGE, CLUSTERING ORDER BY (..)))) on the input after multispace0 *)
parse_one_option(i) ==
    opt(alt(space1_tags(<<"COMPACT", "STORAGE">>, i), parse_clustering_order(i)), i)

(* CqlTableOptions::parse: one turn of the loop *)
options_iteration(input) ==
    The({ IF IsNone(option.val) THEN Left(option.rest, TRUE)
          ELSE IF IsNone(opt_space1_keyword("AND", option.rest).val)
          THEN Left(option.rest, TRUE)
          ELSE Iterating(opt_space1_keyword("AND", option.rest).rest)
        : option \in {parse_one_option(multispace0(input).rest)} })

(* CqlStatements::parse: one turn of the loop *)
script_iteration(input) ==
    The({ IF IsNone(statement.val) THEN Left(statement.rest, TRUE)
          ELSE IF IsNone(opt(tag(";", statement.rest), statement.rest).val)
          THEN Left(statement.rest, TRUE)
          ELSE Iterating(tag(";", statement.rest).rest)
        : statement \in {opt(parse_statement(input), input)} })

Turned(st, n) == [input |-> st.input, done |-> st.done, ok |-> st.ok, turns |-> n]

(* The nesting of a parsed type *)
RECURSIVE Depth(_)
Depth(t) ==
    IF t.inner = <<>> THEN 1
    ELSE 1 + Depth(t.inner[CHOOSE i \in 1..Len(t.inner) :
                     \A j \in 1..Len(t.inner) : Depth(t.inner[j]) <= Depth(t.inner[i])])

(* Types as text, nested, closed or cut short *)
NestedHeads == {"frozen<", "list<", "set<", "map<int,", "tuple<text, "}
NestedOpen == {"", "INT"} \cup {h \o x : h \in NestedHeads, x \in {"", "int", "my_type"}}
                \cup {g \o h \o x : g, h \in NestedHeads, x \in {"", "int", "my_type"}}
NestedTexts == {o \o c : o \in NestedOpen, c \in {"", ">", ">>", " > >"}}

(* Texts after their opening quote, for the loop of parse_quoted *)
QuotedLoopTexts == {b \o t : b \in QuotedBodies, t \in QuotedTails}

InitLoops ==
    /\ Idle
    /\ \/ arg \in {<<"parse_quoted", s>> : s \in QuotedLoopTexts}
       \/ arg \in {<<"parse_options", s>> :
                     s \in {WithText(c, " AND ") : c \in WithClauses}
                             \cup FreeFormClauses \cup {"", "COMPACT STORAGE AND", " AND "}}
       \/ arg \in {<<"parse_cql", s[1]>> : s \in ScriptTexts}
       \/ arg \in {<<"parse_type", s>> : s \in NestedTexts}
    /\ res = Some(Turned(Iterating(arg[2]), 0))

Turning(f) == arg[1] = f /\ ~Unwrap(res).done /\ Unwrap(res).turns < MaxTurns

QuotedTurn ==
    /\ Turning("parse_quoted")
    /\ res' = Some(Turned(quoted_iteration(Unwrap(res).input), Unwrap(res).turns + 1))
    /\ UNCHANGED <<script, ambient, context, heap, pos, result, arg>>

OptionsTurn ==
    /\ Turning("parse_options")
    /\ res' = Some(Turned(options_iteration(Unwrap(res).input), Unwrap(res).turns + 1))
    /\ UNCHANGED <<script, ambient, context, heap, pos, result, arg>>

ScriptTurn ==
    /\ Turning("parse_cql")
    /\ res' = Some(Turned(script_iteration(Unwrap(res).input), Unwrap(res).turns + 1))
    /\ UNCHANGED <<script, ambient, context, heap, pos, result, arg>>

(* CqlType::parse, whole: the nesting of the type it returns *)
TypeDescent ==
    /\ Turning("parse_type")
    /\ res' = Some([input |-> CqlType_parse(arg[2]).rest, done |-> TRUE,
                    ok |-> CqlType_parse(arg[2]).ok, turns |-> 1,
                    depth |-> IF CqlType_parse(arg[2]).ok
                              THEN Depth(CqlType_parse(arg[2]).val) ELSE 0])
    /\ UNCHANGED <<script, ambient, context, heap, pos, result, arg>>

NextLoops == QuotedTurn \/ OptionsTurn \/ ScriptTurn \/ TypeDescent

SpecLoops == InitLoops /\ [][NextLoops]_vars

(* C23: parsing terminates: every turn of the script loop, of the
   table-options loop and of the quoted-identifier loop either leaves the
   loop, with a value or an error, or goes on with a shorter input; the
   input of a loop is never longer than the text, so a loop over a text of
   n characters is left after at most n + 1 turns; the nesting of a parsed
   type is at most the length of its text. *)
C23_Terminates ==
    /\ [][Unwrap(res').done \/ Len(Unwrap(res').input) < Len(Unwrap(res).input)]_vars
    /\ [](/\ Len(Unwrap(res).input) <= Len(arg[2])
          /\ Unwrap(res).turns <= Len(arg[2]) + 1
          /\ Unwrap(res).ok \in BOOLEAN
          /\ Unwrap(res).done \in BOOLEAN)
    /\ []((arg[1] = "parse_type" /\ Unwrap(res).done) =>
            Unwrap(res).depth <= Len(arg[2]))

C23_Witness ==
    /\ arg[1] = "parse_options"
    /\ Len(arg[2]) > 60
    /\ ~Unwrap(res).done
    /\ Len(Unwrap(res).input) \in 1..30

C23_WitnessQuoted ==
    /\ arg = <<"parse_quoted", "a\"\"b\" int">>
    /\ Unwrap(res).done
    /\ Unwrap(res).ok
    /\ Unwrap(res).input = "b\" int"
    /\ Unwrap(res).turns = 2

C23_WitnessType ==
    /\ arg = <<"parse_type", "map<int,tuple<text, my_type>>">>
    /\ Unwrap(res).done
    /\ Unwrap(res).depth = 3

(* C24: a primary key that parses has at least one name in its partition
   key: no text, `()` and `(())` included, parses to a primary key or a
   partition key with none. *)
C24_NonEmptyPartitionKey ==
    /\ (Returned("parse_key_clause") /\ Unwrap(res).ok) =>
          Len(Unwrap(res).val.partition_key) >= 1
    /\ (Returned("parse_partition_key") /\ Unwrap(res).ok) =>
          Len(Unwrap(res).val) >= 1

(* C25: a CREATE TABLE that parses has at least one column and a CREATE
   TYPE that parses has at least one field: a statement with nothing
   between its parentheses does not parse. *)
C25_AtLeastOneMember ==
    (Returned("parse_statement") /\ Unwrap(res).ok) =>
        IF Unwrap(res).val.kind = "CreateTable"
        THEN Len(Unwrap(res).val.body.columns) >= 1
        ELSE Len(Unwrap(res).val.body.fields) >= 1

(* The keyspace a resolved UDT lives in: its own, else the ambient one *)
HomeKeyspace(rc) ==
    IF IsSome(heap[rc].name.keyspace) THEN heap[rc].name.keyspace ELSE ambient

(* C26: every UDT a resolved statement refers to lives in the statement's
   keyspace (the statement's own keyspace, else the ambient one): a
   reference never binds to a definition of another keyspace. *)
C26_KeyspaceIsolation ==
    \A k \in 1..Len(Resolved) :
        \A rc \in Handles(k) :
            OptionIdentifierEq(HomeKeyspace(rc), StmtKeyspace(script[k]))

(* C27: identifier equality is an equivalence relation: x == x holds,
   x == y is y == x, and x == y with y == z gives x == z, for quoted and
   unquoted identifiers alike. *)
C27_Equivalence ==
    Returned("eq3") =>
        /\ (arg[2] = arg[3]) => Unwrap(res)[1]
        /\ (arg[4] = arg[2]) => (Unwrap(res)[1] = Unwrap(res)[2])
        /\ (Unwrap(res)[1] /\ Unwrap(res)[2]) => Unwrap(res)[3]

(* Every reference of the parsed type holds, in the linked type, the Rc of
   the earliest statement before k that defines it *)
RECURSIVE TypeFirst(_, _, _)
TypeFirst(raw, linked, k) ==
    IF raw.tag = "UserDefined"
    THEN /\ DefinedBefore(k, Unwrap(raw.udt)) # {}
         /\ linked.udt = Some(Resolved[Min(DefinedBefore(k, Unwrap(raw.udt)))].rc)
    ELSE \A i \in 1..Len(raw.inner) : TypeFirst(raw.inner[i], linked.inner[i], k)

(* Each handle is the Rc of the first column of the table that its name
   equals *)
FirstColumns(handles, names, t, cell) ==
    \A i \in 1..Len(names) :
        /\ ColumnsNamed(t, names[i]) # {}
        /\ handles[i] = cell.columns[Min(ColumnsNamed(t, names[i]))]

FirstOfKey(t, cell) ==
    IsSome(t.primary_key) =>
        /\ FirstColumns(Unwrap(cell.primary_key).partition_key,
                        Unwrap(t.primary_key).partition_key, t, cell)
        /\ FirstColumns(Unwrap(cell.primary_key).clustering_columns,
                        Unwrap(t.primary_key).clustering_columns, t, cell)

FirstOfOrder(t, cell) ==
    IsSome(t.options) =>
        FirstColumns([i \in 1..Len(Unwrap(cell.options).clustering_order) |->
                        Unwrap(cell.options).clustering_order[i][1]],
                     [i \in 1..Len(Unwrap(t.options).clustering_order) |->
                        Unwrap(t.options).clustering_order[i][1]], t, cell)

(* C28: in every resolved statement each type reference holds the Rc of the
   earliest CREATE TYPE before it whose contextualized name equals the
   reference (a table is never bound, whatever its name), and each
   primary-key and clustering-order name of a table holds the Rc of the
   first column of the table that the name equals. *)
C28_FirstMatchWins ==
    \A k \in 1..Len(Resolved) :
        IF script[k].kind = "CreateTable"
        THEN /\ \A i \in 1..Len(script[k].body.columns) :
                  TypeFirst(script[k].body.columns[i].cql_type,
                            heap[heap[Resolved[k].rc].columns[i]].cql_type, k)
             /\ FirstOfKey(script[k].body, heap[Resolved[k].rc])
             /\ FirstOfOrder(script[k].body, heap[Resolved[k].rc])
        ELSE \A i \in 1..Len(script[k].body.fields) :
                  TypeFirst(script[k].body.fields[i][2],
                            heap[Resolved[k].rc].fields[i][2], k)

(* Two CREATE TYPE statements of equal names, and the table after them
   holds the Rc of the first *)
C28_Witness ==
    /\ Succeeded
    /\ Len(script) = 3
    /\ script[3].kind = "CreateTable"
    /\ \E u \in StmtRefs(script[3]) : DefinedBefore(3, u) = {1, 2}
    /\ Handles(3) = {Resolved[1].rc}

(* Two columns of equal names, and the key holds the Rc of the first *)
C28_WitnessColumn ==
    /\ Succeeded
    /\ Len(script) = 1
    /\ script[1].kind = "CreateTable"
    /\ \E n \in PkNames(script[1].body) : ColumnsNamed(script[1].body, n) = {1, 2}
    /\ Unwrap(heap[Resolved[1].rc].primary_key).partition_key =
         <<heap[Resolved[1].rc].columns[1]>>

(* A table of the reference's name comes first, and the reference holds the
   Rc of the type after it *)
C28_WitnessTable ==
    /\ Succeeded
    /\ Len(script) = 4
    /\ script[1].kind = "CreateTable"
    /\ script[1].body.name = Name("my_type")
    /\ DefinedBefore(4, Unquoted("my_type")) = {2, 3}
    /\ Handles(4) = {Resolved[2].rc}

(* C29: a type written as a name that begins with the letters of a type
   keyword, in any case, parses to UserDefined of the whole name, and the
   text left is the text after the name. *)
C29_KeywordPrefixedNames ==
    Returned("parse_type_name") =>
        Unwrap(res) = IOk(arg[4], UserDefined(Unquoted(arg[3])))

(* Two type trees of the same shape: the same kinds with the same numbers of
   inner types, whatever the references hold *)
RECURSIVE SameShape(_, _)
SameShape(raw, linked) ==
    /\ linked.tag = raw.tag
    /\ Len(linked.inner) = Len(raw.inner)
    /\ \A i \in 1..Len(raw.inner) : SameShape(raw.inner[i], linked.inner[i])

ColumnKept(c, cell) ==
    /\ cell.name = c.name
    /\ cell.is_static = c.is_static
    /\ cell.is_primary_key = c.is_primary_key
    /\ SameShape(c.cql_type, cell.cql_type)

OptionsKept(os, linked) ==
    /\ linked.compact_storage = os.compact_storage
    /\ linked.options = os.options
    /\ Len(linked.clustering_order) = Len(os.clustering_order)
    /\ \A i \in 1..Len(os.clustering_order) :
         linked.clustering_order[i][2] = os.clustering_order[i][2]

TableKept(t, cell) ==
    /\ Len(cell.columns) = Len(t.columns)
    /\ \A i \in 1..Len(t.columns) : ColumnKept(t.columns[i], heap[cell.columns[i]])
    /\ IsSome(cell.primary_key) = IsSome(t.primary_key)
    /\ IsSome(t.primary_key) =>
         /\ Len(Unwrap(cell.primary_key).partition_key) =
              Len(Unwrap(t.primary_key).partition_key)
         /\ Len(Unwrap(cell.primary_key).clustering_columns) =
              Len(Unwrap(t.primary_key).clustering_columns)
    /\ IsSome(cell.options) = IsSome(t.options)
    /\ IsSome(t.options) => OptionsKept(Unwrap(t.options), Unwrap(cell.options))

UdtKept(u, cell) ==
    /\ Len(cell.fields) = Len(u.fields)
    /\ \A i \in 1..Len(u.fields) :
         /\ cell.fields[i][1] = u.fields[i][1]
         /\ SameShape(u.fields[i][2], cell.fields[i][2])

(* C30: every resolved statement is of the kind of the written one and has
   its if_not_exists flag and its qualified name as written, keyspace
   included; a table has the written columns in the written order, each with
   its name, its is_static and is_primary_key flags and the shape of its
   type, a primary key exactly when one is written, and the written
   compact_storage flag, directions and free options; a UDT has the written
   field names in the written order, each with the shape of its type. *)
C30_OnlyReferencesChange ==
    \A k \in 1..Len(Resolved) :
        /\ Resolved[k].kind = script[k].kind
        /\ heap[Resolved[k].rc].if_not_exists = script[k].body.if_not_exists
        /\ heap[Resolved[k].rc].name = script[k].body.name
        /\ IF script[k].kind = "CreateTable"
           THEN TableKept(script[k].body, heap[Resolved[k].rc])
           ELSE UdtKept(script[k].body, heap[Resolved[k].rc])

(* Under an ambient keyspace, a table written without a keyspace, with an
   inline PRIMARY KEY marker, no primary key and a reference, is resolved *)
C30_Witness ==
    /\ Succeeded
    /\ ambient = Some(ks1)
    /\ \E k \in ResolvedTables :
         /\ script[k].body.if_not_exists
         /\ IsNone(heap[Resolved[k].rc].name.keyspace)
         /\ heap[heap[Resolved[k].rc].columns[1]].is_primary_key
         /\ IsNone(heap[Resolved[k].rc].primary_key)
         /\ Handles(k) # {}

(* A table with COMPACT STORAGE and one with a descending clustering order
   are resolved *)
C30_WitnessOptions ==
    /\ Succeeded
    /\ \E k \in ResolvedTables :
         /\ IsSome(heap[Resolved[k].rc].options)
         /\ Unwrap(heap[Resolved[k].rc].options).compact_storage
         /\ heap[heap[Resolved[k].rc].columns[2]].is_static

C30_WitnessDirection ==
    /\ Succeeded
    /\ \E k \in ResolvedTables :
         /\ IsSome(heap[Resolved[k].rc].options)
         /\ Len(Unwrap(heap[Resolved[k].rc].options).clustering_order) >= 1
         /\ Unwrap(heap[Resolved[k].rc].options).clustering_order[1][2] = "Desc"
=============================================================================
